---------------------------- MODULE Spec2Model ----------------------------
(***************************************************************************)
(* A model of the deposit-rate scraper (src/src/deposits).                 *)
(*                                                                         *)
(* Text is modelled character by character: a Python str is a sequence of  *)
(* one-character strings, so that substring tests, regular-expression      *)
(* searches, str.lower, str.strip and str.lstrip are computed the way the  *)
(* code computes them.  A Cyrillic letter is one character written as an   *)
(* ASCII atom ("cyr_d" is U+0434).                                         *)
(*                                                                         *)
(* A Python float that comes from a decimal literal is modelled as an      *)
(* exact decimal [n |-> numerator, k |-> number of decimal places], i.e.   *)
(* n / 10^k.  Binary rounding of float division is not modelled.           *)
(*                                                                         *)
(* An Optional value is a sequence of length 0 (None) or 1.                *)
(***************************************************************************)
EXTENDS Integers, Sequences, FiniteSets, TLC

-----------------------------------------------------------------------------
(* Characters and the str methods the code uses.                           *)

\* a local name: the value v is computed once, before the body F reads it
With(v, F(_)) == CHOOSE r \in {F(x) : x \in {v}} : TRUE

Digits == {"0", "1", "2", "3", "4", "5", "6", "7", "8", "9"}

DigitVal(c) ==
    CASE c = "0" -> 0 [] c = "1" -> 1 [] c = "2" -> 2 [] c = "3" -> 3
      [] c = "4" -> 4 [] c = "5" -> 5 [] c = "6" -> 6 [] c = "7" -> 7
      [] c = "8" -> 8 [] c = "9" -> 9

\* str.split() / str.strip() / the regex class \s
IsSpace(c) == c \in {" ", "\t", "\n", "\r"}

IsDigit(c) == c \in Digits

UpperChars ==
    <<"A", "B", "C", "D", "E", "F", "G", "H", "I", "J", "K", "L", "M",
      "N", "O", "P", "Q", "R", "S", "T", "U", "V", "W", "X", "Y", "Z",
      "CYR_D", "CYR_O", "CYR_L", "CYR_A", "CYR_R", "CYR_S", "CYR_U",
      "CYR_M", "CYR_USHORT", "CYR_V", "CYR_T", "CYR_YU", "CYR_P", "CYR_TS",
      "CYR_E", "CYR_N", "CYR_G", "CYR_Y", "CYR_H", "CYR_K", "CYR_Z", "CYR_I">>

LowerChars ==
    <<"a", "b", "c", "d", "e", "f", "g", "h", "i", "j", "k", "l", "m",
      "n", "o", "p", "q", "r", "s", "t", "u", "v", "w", "x", "y", "z",
      "cyr_d", "cyr_o", "cyr_l", "cyr_a", "cyr_r", "cyr_s", "cyr_u",
      "cyr_m", "cyr_ushort", "cyr_v", "cyr_t", "cyr_yu", "cyr_p", "cyr_ts",
      "cyr_e", "cyr_n", "cyr_g", "cyr_y", "cyr_h", "cyr_k", "cyr_z", "cyr_i">>

\* str.lower() and str.upper() of one character, as tables
LowerMap == [c \in {UpperChars[a] : a \in 1..Len(UpperChars)} |->
               LowerChars[CHOOSE a \in 1..Len(UpperChars) : UpperChars[a] = c]]

UpperMap == [c \in {LowerChars[a] : a \in 1..Len(LowerChars)} |->
               UpperChars[CHOOSE a \in 1..Len(LowerChars) : LowerChars[a] = c]]

LowerOf(c) == IF c \in DOMAIN LowerMap THEN LowerMap[c] ELSE c

\* str.lower()
Lower(s) == SubSeq([i \in 1..Len(s) |-> LowerOf(s[i])], 1, Len(s))

\* sub in s
Contains(s, sub) ==
    With(s, LAMBDA t :
      \E i \in 1..(Len(t) - Len(sub) + 1) : SubSeq(t, i, i + Len(sub) - 1) = sub)

\* any(x in s for x in subs)
ContainsAny(s, subs) == With(s, LAMBDA t : \E x \in subs : Contains(t, x))

\* s.startswith(p), s.endswith(p)
StartsWith(s, p) == Len(p) <= Len(s) /\ SubSeq(s, 1, Len(p)) = p

EndsWith(s, p) == Len(p) <= Len(s) /\ SubSeq(s, Len(s) - Len(p) + 1, Len(s)) = p

RECURSIVE LStripSpace(_)
LStripSpace(s) ==
    IF s # <<>> /\ IsSpace(Head(s)) THEN LStripSpace(Tail(s)) ELSE s

RECURSIVE RStripSpace(_)
RStripSpace(s) ==
    IF s # <<>> /\ IsSpace(s[Len(s)])
    THEN RStripSpace(SubSeq(s, 1, Len(s) - 1))
    ELSE s

\* str.strip()
Strip(s) == RStripSpace(LStripSpace(s))

\* str.lstrip(chars): drops every leading character that is in the SET chars
RECURSIVE LStripChars(_, _)
LStripChars(s, chars) ==
    IF s # <<>> /\ Head(s) \in chars THEN LStripChars(Tail(s), chars) ELSE s

\* s[:n]
Prefix(s, n) == SubSeq(s, 1, IF Len(s) < n THEN Len(s) ELSE n)

\* str.replace(",", ".")
CommaToDot(s) == [i \in 1..Len(s) |-> IF s[i] = "," THEN "." ELSE s[i]]

\* " ".join(parts)
RECURSIVE JoinSpace(_)
JoinSpace(parts) ==
    IF parts = <<>> THEN <<>>
    ELSE IF Len(parts) = 1 THEN parts[1]
    ELSE parts[1] \o <<" ">> \o JoinSpace(Tail(parts))

\* s.split(): the maximal runs of non-whitespace
RECURSIVE SplitWs(_, _, _)
SplitWs(s, i, cur) ==
    IF i > Len(s) THEN (IF cur = <<>> THEN <<>> ELSE <<cur>>)
    ELSE IF IsSpace(s[i])
         THEN (IF cur = <<>> THEN <<>> ELSE <<cur>>) \o SplitWs(s, i + 1, <<>>)
         ELSE SplitWs(s, i + 1, Append(cur, s[i]))

-----------------------------------------------------------------------------
(* Decimal numbers: the floats the code computes from decimal literals.    *)

RECURSIVE Pow10(_)
Pow10(k) == IF k = 0 THEN 1 ELSE 10 * Pow10(k - 1)

Dec(n, k) == [n |-> n, k |-> k]

\* the canonical form of a decimal: equal numbers are equal records
RECURSIVE DecNorm(_)
DecNorm(d) ==
    IF d.n = 0 THEN Dec(0, 0)
    ELSE IF d.k > 0 /\ d.n % 10 = 0 THEN DecNorm(Dec(d.n \div 10, d.k - 1))
    ELSE d

\* a <= b, a < b on decimals
DecLE(a, b) == a.n * Pow10(b.k) <= b.n * Pow10(a.k)

DecLT(a, b) == a.n * Pow10(b.k) < b.n * Pow10(a.k)

DecZero == Dec(0, 0)

DecOne == Dec(1, 0)

\* v / 100.0
Div100(d) == DecNorm(Dec(d.n, d.k + 2))

\* the value of a run of decimal digits
RECURSIVE DigitsVal(_)
DigitsVal(ds) ==
    IF ds = <<>> THEN 0
    ELSE 10 * DigitsVal(SubSeq(ds, 1, Len(ds) - 1)) + DigitVal(ds[Len(ds)])

AllDigits(s) == \A i \in 1..Len(s) : IsDigit(s[i])

\* float(s): Some(value), or None where float() raises ValueError.  The
\* literals covered are [sign] digits [. digits] with a digit on at least
\* one side of the point, with surrounding whitespace; exponents, inf, nan
\* and underscores need characters outside the alphabets explored below.
ParseFloat(s0) ==
    With(Strip(s0), LAMBDA s :
    With(IF s # <<>> /\ Head(s) \in {"+", "-"} THEN Tail(s) ELSE s, LAMBDA u :
    With({a \in 1..Len(u) : u[a] = "."}, LAMBDA dots :
      IF Cardinality(dots) > 1 THEN <<>>
      ELSE
        With(IF dots = {} THEN Len(u) + 1 ELSE CHOOSE a \in dots : TRUE, LAMBDA p :
        With(SubSeq(u, 1, p - 1), LAMBDA ip :
        With(SubSeq(u, p + 1, Len(u)), LAMBDA fp :
          IF ~(AllDigits(ip) /\ AllDigits(fp)) \/ (ip = <<>> /\ fp = <<>>)
          THEN <<>>
          ELSE With(DigitsVal(ip) * Pow10(Len(fp)) + DigitsVal(fp), LAMBDA m :
                 <<DecNorm(Dec(IF Head(s) = "-" THEN 0 - m ELSE m, Len(fp)))>>)))))))

\* the index of the last digit of the run of digits that starts at s[i]
RECURSIVE DigitRunEnd(_, _)
DigitRunEnd(s, i) ==
    IF i < Len(s) /\ IsDigit(s[i + 1]) THEN DigitRunEnd(s, i + 1) ELSE i

\* the end of the match of \d+(?:[.,]\d+)? that starts at the digit s[i]
NumEnd(s, i) ==
    With(DigitRunEnd(s, i), LAMBDA j :
      IF j + 2 <= Len(s) /\ s[j + 1] \in {".", ","} /\ IsDigit(s[j + 2])
      THEN DigitRunEnd(s, j + 2)
      ELSE j)

RECURSIVE SkipSpace(_, _)
SkipSpace(s, i) ==
    IF i <= Len(s) /\ IsSpace(s[i]) THEN SkipSpace(s, i + 1) ELSE i

\* PCT_RE matches at start position i
PctMatchesAt(s, i) ==
    /\ IsDigit(s[i])
    /\ With(SkipSpace(s, NumEnd(s, i) + 1), LAMBDA p : p <= Len(s) /\ s[p] = "%")

\* PCT_RE.search(s): the group "num" of the leftmost match, as an Optional
PctSearch(s) ==
    With({a \in 1..Len(s) : PctMatchesAt(s, a)}, LAMBDA starts :
      IF starts = {} THEN <<>>
      ELSE With(CHOOSE a \in starts : \A b \in starts : a <= b, LAMBDA a :
             <<SubSeq(s, a, NumEnd(s, a))>>))

\* [x.group("num") for x in NUM_RE.finditer(s)], scanning from index i
RECURSIVE NumFindAll(_, _)
NumFindAll(s, i) ==
    IF i > Len(s) THEN <<>>
    ELSE IF IsDigit(s[i])
         THEN With(NumEnd(s, i), LAMBDA e :
                <<SubSeq(s, i, e)>> \o NumFindAll(s, e + 1))
         ELSE NumFindAll(s, i + 1)

\* utils.parse_percent
\* the tail of parse_percent: float(num_str) and the scaling; in_pct tells
\* whether num_str came from a PCT_RE match
PercentValue(num_str, in_pct) ==
    With(ParseFloat(CommaToDot(num_str)), LAMBDA v :
      IF v = <<>> THEN DecZero
      ELSE IF in_pct \/ DecLT(DecOne, v[1]) THEN Div100(v[1]) ELSE v[1])

parse_percent(raw) ==
    With(Strip(raw), LAMBDA s :
      IF s = <<>> THEN DecZero
      ELSE With(PctSearch(s), LAMBDA m :
             PercentValue(IF m # <<>> THEN m[1] ELSE s, m # <<>>)))

\* parsers.MAX_USD_RATE = 0.35
MAX_USD_RATE == Dec(35, 2)

\* parsers._norm
_norm(s) == JoinSpace(SplitWs(s, 1, <<>>))

\* 0.0 < rate <= MAX_USD_RATE
RateAccepted(rate) == DecLT(DecZero, rate) /\ DecLE(rate, MAX_USD_RATE)

\* the first of nums whose parse_percent is accepted, as an Optional
RECURSIVE FirstAcceptedRate(_)
FirstAcceptedRate(nums) ==
    IF nums = <<>> THEN <<>>
    ELSE With(parse_percent(Head(nums)), LAMBDA r :
           IF RateAccepted(r) THEN <<r>> ELSE FirstAcceptedRate(Tail(nums)))

\* parsers._extract_rate_from_text
_extract_rate_from_text(text) ==
    With(_norm(text), LAMBDA t :
      IF t = <<>> THEN <<>>
      ELSE
        With(PctSearch(t), LAMBDA m :
        \* m.group(0) is the number followed by \s*%
        With(IF m # <<>> THEN parse_percent(m[1] \o <<"%">>) ELSE DecZero, LAMBDA r :
          IF m # <<>> /\ RateAccepted(r) THEN <<r>>
          ELSE FirstAcceptedRate(Prefix(NumFindAll(t, 1), 4)))))

-----------------------------------------------------------------------------
(* The keyword lists of parsers.py, utils.py, cli.py and http.py.          *)

\* parsers.USD_POS
USD_POS ==
    { <<"u", "s", "d">>,
      <<"u", "s", " ", "d", "o", "l", "l", "a", "r">>,
      <<"d", "o", "l", "l", "a", "r">>,
      <<"a", "q", "s", "h", " ", "d", "o", "l", "l", "a", "r">>,
      <<"a", "q", "s", "h", " ", "d", "o", "l", "l">>,
      <<"$">>,
      <<"cyr_d", "cyr_o", "cyr_l", "cyr_l", "cyr_a", "cyr_r">>,
      <<"cyr_d", "cyr_o", "cyr_l", "cyr_l">> }

\* parsers.USD_NEG
USD_NEG ==
    { <<"u", "z", "s">>,
      <<"s", "o", "'", "m">>,
      <<"s", "o", "m">>,
      <<"cyr_s", "cyr_u", "cyr_m">>,
      <<"s", "u", "m">>,
      <<"cyr_s", "cyr_ushort", "cyr_m">> }

\* parsers.DEPOSIT_LINK_HINTS
DEPOSIT_LINK_HINTS ==
    { <<"d", "e", "p", "o", "s", "i", "t">>,
      <<"d", "e", "p", "o", "s", "i", "t", "s">>,
      <<"o", "m", "o", "n", "a", "t">>,
      <<"o", "m", "o", "n", "a", "t", "l", "a", "r">>,
      <<"v", "k", "l", "a", "d">>,
      <<"v", "k", "l", "a", "d", "y">>,
      <<"cyr_d", "cyr_e", "cyr_p", "cyr_o", "cyr_z", "cyr_i", "cyr_t">>,
      <<"cyr_v", "cyr_k", "cyr_l", "cyr_a", "cyr_d">>,
      <<"s", "a", "v", "i", "n", "g", "s">>,
      <<"s", "a", "v", "i", "n", "g">>,
      <<"t", "e", "r", "m", "-", "d", "e", "p", "o", "s", "i", "t">>,
      <<"t", "i", "m", "e", "-", "d", "e", "p", "o", "s", "i", "t">> }

\* parsers.RATE_HINTS
RATE_HINTS ==
    { <<"r", "a", "t", "e">>,
      <<"a", "n", "n", "u", "a", "l">>,
      <<"s", "t", "a", "v", "k", "a">>,
      <<"f", "o", "i", "z">>,
      <<"cyr_p", "cyr_r", "cyr_o", "cyr_ts", "cyr_e", "cyr_n", "cyr_t">>,
      <<"y", "i", "l", "l", "i", "k">>,
      <<"cyr_g", "cyr_o", "cyr_d", "cyr_o", "cyr_v", "cyr_y", "cyr_h">>,
      <<"%">> }

\* the alternatives of parsers.NOISE_RE, all literal; the regex ignores case
NOISE_WORDS ==
    { <<"{">>,
      <<"}">>,
      <<"@", "f", "o", "n", "t", "-", "f", "a", "c", "e">>,
      <<"/", "*">>,
      <<"*", "/">>,
      <<"p", "x">>,
      <<"r", "e", "m">>,
      <<"v", "h">>,
      <<"v", "w">>,
      <<"v", "a", "r", "(">>,
      <<"n", "o", "r", "m", "a", "l", "i", "z", "e", ".", "c", "s", "s">> }

\* the header keywords of _extract_from_tables
CUR_HEADER_WORDS ==
    { <<"c", "u", "r", "r", "e", "n", "c", "y">>,
      <<"cyr_v", "cyr_a", "cyr_l", "cyr_yu", "cyr_t", "cyr_a">>,
      <<"v", "a", "l", "y", "u", "t", "a">>,
      <<"u", "s", "d">> }

NAME_HEADER_WORDS ==
    { <<"d", "e", "p", "o", "s", "i", "t">>,
      <<"cyr_v", "cyr_k", "cyr_l", "cyr_a", "cyr_d">>,
      <<"cyr_d", "cyr_e", "cyr_p", "cyr_o", "cyr_z", "cyr_i", "cyr_t">>,
      <<"o", "m", "o", "n", "a", "t">> }

\* the non-content keywords of _extract_from_blocks
BLOCK_NAME_STOPWORDS ==
    { <<"c", "o", "o", "k", "i", "e">>,
      <<"p", "r", "i", "v", "a", "c", "y">>,
      <<"p", "o", "l", "i", "c", "y">>,
      <<"s", "e", "a", "r", "c", "h">>,
      <<"s", "u", "b", "s", "c", "r", "i", "b", "e">> }

\* cli.USD_TOKENS
USD_TOKENS ==
    { <<"u", "s", "d">>,
      <<"$">>,
      <<"d", "o", "l", "l", "a", "r">>,
      <<"a", "q", "s", "h">> }

\* the alternatives of http.ANTI_COOKIES_RE (ignoring case)
ANTI_COOKIE_WORDS ==
    { <<"c", "f", "_", "c", "l", "e", "a", "r", "a", "n", "c", "e">>,
      <<"_", "_", "c", "f", "_", "b", "m">>,
      <<"_", "a", "b", "c", "k">>,
      <<"b", "m", "_", "s", "z">>,
      <<"a", "k", "_", "b", "m", "s", "c">> }

\* the alternatives of http.ANTI_BODY_RE (ignoring case)
ANTI_BODY_WORDS ==
    { <<"c", "a", "p", "t", "c", "h", "a">>,
      <<"h", "c", "a", "p", "t", "c", "h", "a">>,
      <<"r", "e", "c", "a", "p", "t", "c", "h", "a">>,
      <<"c", "h", "e", "c", "k", "i", "n", "g", " ", "y", "o", "u", "r", " ", "b", "r", "o", "w", "s", "e", "r">>,
      <<"j", "u", "s", "t", " ", "a", " ", "m", "o", "m", "e", "n", "t">>,
      <<"a", "c", "c", "e", "s", "s", " ", "d", "e", "n", "i", "e", "d">>,
      <<"r", "e", "q", "u", "e", "s", "t", " ", "b", "l", "o", "c", "k", "e", "d">>,
      <<"c", "f", "-", "c", "h", "a", "l", "l", "e", "n", "g", "e">>,
      <<"c", "h", "a", "l", "l", "e", "n", "g", "e", "-", "p", "l", "a", "t", "f", "o", "r", "m">>,
      <<"e", "n", "a", "b", "l", "e", " ", "j", "a", "v", "a", "s", "c", "r", "i", "p", "t">>,
      <<"j", "a", "v", "a", "s", "c", "r", "i", "p", "t", " ", "r", "e", "q", "u", "i", "r", "e", "d">> }

-----------------------------------------------------------------------------
(* URLs (urllib.parse as far as the code uses it).                         *)

s_http == <<"h", "t", "t", "p", ":", "/", "/">>

s_https == <<"h", "t", "t", "p", "s", ":", "/", "/">>

SchemeChars ==
    { LowerChars[i] : i \in 1..26 } \cup { UpperChars[i] : i \in 1..26 }
        \cup Digits \cup {"+", "-", "."}

\* the index of the first character of s that is in the set cs, or Len(s)+1
FirstIn(s, cs) ==
    With({i \in 1..Len(s) : s[i] \in cs}, LAMBDA hits :
      IF hits = {} THEN Len(s) + 1
      ELSE CHOOSE a \in hits : \A b \in hits : a <= b)

\* urlsplit: what follows the scheme (the whole string when there is none)
AfterScheme(url) ==
    With(FirstIn(url, {":"}), LAMBDA c :
      IF /\ c <= Len(url)
         /\ c > 1
         /\ ~IsDigit(url[1])
         /\ \A i \in 1..(c - 1) : url[i] \in SchemeChars
      THEN SubSeq(url, c + 1, Len(url))
      ELSE url)

\* urlparse(url).netloc
Netloc(url) ==
    With(AfterScheme(url), LAMBDA rest :
      IF StartsWith(rest, <<"/", "/">>)
      THEN With(SubSeq(rest, 3, Len(rest)), LAMBDA r :
             SubSeq(r, 1, FirstIn(r, {"/", "?", "#"}) - 1))
      ELSE <<>>)

\* urlsplit raises ValueError("Invalid IPv6 URL") on a netloc with one
\* square bracket and not the other
UrlparseRaises(url) ==
    With(Netloc(url), LAMBDA n :
    With({n[a] : a \in 1..Len(n)}, LAMBDA cs :
      ("[" \in cs /\ "]" \notin cs) \/ ("]" \in cs /\ "[" \notin cs)))

\* utils.domain_of, where urlparse returns
domain_of(url) == LStripChars(Lower(Netloc(url)), {"w", "."})

\* parsers._same_domain
_same_domain(a, b) == domain_of(a) = domain_of(b)

\* urljoin(base, href) for the two forms of href the pages below use: an
\* absolute http(s) URL, and a path that starts with "/"
urljoin(base, href) ==
    IF StartsWith(href, s_http) \/ StartsWith(href, s_https) THEN href
    ELSE SubSeq(base, 1, FirstIn(base, {":"})) \o <<"/", "/">> \o Netloc(base) \o href

-----------------------------------------------------------------------------
(* Documents.  BeautifulSoup's parse of a page is given with the page: a   *)
(* tree of nodes, a text node having the tag "#text".  href is the         *)
(* Optional href attribute.                                                *)

Text(t) == [tag |-> "#text", text |-> t, href |-> <<>>, kids |-> <<>>]

El(tag, kids) == [tag |-> tag, text |-> <<>>, href |-> <<>>, kids |-> kids]

Anchor(href, kids) == [tag |-> "a", text |-> <<>>, href |-> <<href>>, kids |-> kids]

\* the descendants of the nodes kids, in document order
RECURSIVE DescOfKids(_)
DescOfKids(kids) ==
    IF kids = <<>> THEN <<>>
    ELSE <<Head(kids)>> \o DescOfKids(Head(kids).kids) \o DescOfKids(Tail(kids))

Descendants(node) == DescOfKids(node.kids)

\* node.find_all(tags)
find_all(node, tags) == SelectSeq(Descendants(node), LAMBDA d : d.tag \in tags)

\* node.find(tag), as an Optional
find(node, tag) == Prefix(find_all(node, {tag}), 1)

\* node.get_text(" ", strip=True)
get_text(node) ==
    With(SelectSeq(Descendants(node),
                   LAMBDA d : d.tag = "#text" /\ Strip(d.text) # <<>>), LAMBDA texts :
      JoinSpace([i \in 1..Len(texts) |-> Strip(texts[i].text)]))

\* _norm(node.get_text(" ", strip=True))
NodeText(node) == _norm(get_text(node))

\* parsers._clean_soup: the tree without its script, style and noscript
RECURSIVE CleanKids(_)
CleanKids(kids) ==
    IF kids = <<>> THEN <<>>
    ELSE IF Head(kids).tag \in {"script", "style", "noscript"}
         THEN CleanKids(Tail(kids))
         ELSE <<[Head(kids) EXCEPT !.kids = CleanKids(Head(kids).kids)]>>
                  \o CleanKids(Tail(kids))

_clean_soup(dom) == [dom EXCEPT !.kids = CleanKids(dom.kids)]

\* seqs[1] \o seqs[2] \o ...
RECURSIVE Concat(_)
Concat(seqs) == IF seqs = <<>> THEN <<>> ELSE Head(seqs) \o Concat(Tail(seqs))

-----------------------------------------------------------------------------
(* The extraction heuristics of parsers.py.                                *)

\* parsers._is_noise
_is_noise(s) ==
    With(_norm(s), LAMBDA t :
      IF Len(t) < 2 THEN TRUE ELSE ContainsAny(Lower(t), NOISE_WORDS))

\* parsers._is_usd_context
_is_usd_context(text) ==
    With(Lower(text), LAMBDA t :
      IF ContainsAny(t, USD_NEG) /\ ~ContainsAny(t, USD_POS) THEN FALSE
      ELSE ContainsAny(t, USD_POS))

s_usd == <<"u", "s", "d">>

\* parsers._page_forced_usd.  Its parse_qs branch is subsumed by the first
\* test: a query value equal to "usd" in any case puts "usd" in url.lower()
_page_forced_usd(url, soup_text) ==
    \/ Contains(Lower(url), s_usd)
    \/ With(Lower(soup_text), LAMBDA t :
         /\ Contains(<<" ">> \o t \o <<" ">>, <<" ">> \o s_usd \o <<" ">>)
         /\ ~ContainsAny(t, USD_NEG))

s_unknown_bank == <<"U", "n", "k", "n", "o", "w", "n", " ", "B", "a", "n", "k">>

\* parsers._best_bank_name
_best_bank_name(soup) ==
    With(find(soup, "h1"), LAMBDA h1 :
    With(IF h1 = <<>> THEN <<>> ELSE NodeText(h1[1]), LAMBDA v :
      IF v # <<>> THEN Prefix(v, 80)
      ELSE
        With(find(soup, "title"), LAMBDA tn :
        With(IF tn = <<>> THEN <<>> ELSE NodeText(tn[1]), LAMBDA title :
          IF title # <<>> THEN Prefix(title, 80) ELSE s_unknown_bank))))

NameTags == <<"h1", "h2", "h3", "h4", "strong", "b", "a">>

\* the loop of _pick_name_from_block over NameTags[i..]
RECURSIVE PickNameFrom(_, _)
PickNameFrom(block, i) ==
    IF i > Len(NameTags) THEN Prefix(NodeText(block), 120)
    ELSE
      With(find(block, NameTags[i]), LAMBDA n :
      With(IF n = <<>> THEN <<>> ELSE NodeText(n[1]), LAMBDA s :
        IF n # <<>> /\ s # <<>> /\ ~_is_noise(s) THEN s
        ELSE PickNameFrom(block, i + 1)))

\* parsers._pick_name_from_block
_pick_name_from_block(block) == PickNameFrom(block, 1)

\* models.Deposit
Deposit(bank, site, name, rate, url) ==
    [bank |-> bank, site |-> site, name |-> name, rate |-> rate,
     currency |-> "USD", url |-> url]

\* the first index i with P(hs[i]), or 0 (None)
FirstIndex(hs, P(_)) ==
    With({a \in 1..Len(hs) : P(hs[a])}, LAMBDA hits :
      IF hits = {} THEN 0 ELSE CHOOSE a \in hits : \A b \in hits : a <= b)

\* cells[idx] as text when idx is a column of the row, else the default
CellText(cells, idx, default) ==
    IF idx # 0 /\ idx <= Len(cells) THEN NodeText(cells[idx]) ELSE default

\* a text that names only non-USD currencies
UsdNegOnly(low) == ContainsAny(low, USD_NEG) /\ ~ContainsAny(low, USD_POS)

\* one data row of _extract_from_tables, as the list of 0 or 1 Deposit it
\* appends; cur_idx, rate_idx and name_idx are 1-based, 0 is None
TableRow(tr, cur_idx, rate_idx, name_idx, url, bank, forced_usd) ==
    With(find_all(tr, {"td", "th"}), LAMBDA cells :
    With(NodeText(tr), LAMBDA row_text :
      IF cells = <<>> THEN <<>>
      ELSE IF _is_noise(row_text) THEN <<>>
      ELSE IF ~(\/ forced_usd
                \/ _is_usd_context(row_text)
                \/ _is_usd_context(CellText(cells, cur_idx, <<>>))) THEN <<>>
      ELSE IF UsdNegOnly(Lower(row_text)) THEN <<>>
      ELSE
        With(_extract_rate_from_text(CellText(cells, rate_idx, row_text)), LAMBDA rate :
          IF rate = <<>> THEN <<>>
          ELSE
            With(CellText(cells, name_idx, <<>>), LAMBDA name0 :
            With(IF name0 = <<>> THEN _pick_name_from_block(tr) ELSE name0, LAMBDA name :
              IF name = <<>> \/ _is_noise(name) THEN <<>>
              ELSE <<Deposit(bank, domain_of(url), name, rate[1], url)>>)))))

\* one table of _extract_from_tables
TableDeposits(table, url, bank, forced_usd) ==
    With(find_all(table, {"tr"}), LAMBDA rows :
      IF Len(rows) < 2 THEN <<>>
      ELSE
        With(find_all(rows[1], {"th", "td"}), LAMBDA hcells :
        With([a \in 1..Len(hcells) |-> Lower(NodeText(hcells[a]))], LAMBDA headers :
        With(FirstIndex(headers, LAMBDA h : ContainsAny(h, CUR_HEADER_WORDS)), LAMBDA cur_idx :
        With(FirstIndex(headers, LAMBDA h : ContainsAny(h, RATE_HINTS)), LAMBDA rate_idx :
        With(FirstIndex(headers, LAMBDA h : ContainsAny(h, NAME_HEADER_WORDS)), LAMBDA name_idx :
          Concat([a \in 1..(Len(rows) - 1) |->
                    TableRow(rows[a + 1], cur_idx, rate_idx, name_idx,
                             url, bank, forced_usd)])))))))

\* parsers._extract_from_tables
_extract_from_tables(soup, url, bank, forced_usd) ==
    With(find_all(soup, {"table"}), LAMBDA tables :
      Concat([a \in 1..Len(tables) |-> TableDeposits(tables[a], url, bank, forced_usd)]))

HasDigit(s) == \E i \in 1..Len(s) : IsDigit(s[i])

\* one candidate block of _extract_from_blocks
BlockDeposit(block, url, bank, forced_usd) ==
    With(NodeText(block), LAMBDA bt :
    With(Lower(bt), LAMBDA low :
      IF bt = <<>> \/ _is_noise(bt) THEN <<>>
      ELSE IF ~HasDigit(bt) THEN <<>>
      ELSE IF ~(Contains(bt, <<"%">>) \/ ContainsAny(low, RATE_HINTS)) THEN <<>>
      ELSE IF ~(forced_usd \/ _is_usd_context(bt)) THEN <<>>
      ELSE IF UsdNegOnly(low) THEN <<>>
      ELSE
        With(_extract_rate_from_text(bt), LAMBDA rate :
          IF rate = <<>> THEN <<>>
          ELSE
            With(_pick_name_from_block(block), LAMBDA name :
              IF name = <<>> THEN <<>>
              ELSE IF _is_noise(name) THEN <<>>
              ELSE IF ContainsAny(Lower(name), BLOCK_NAME_STOPWORDS) THEN <<>>
              ELSE <<Deposit(bank, domain_of(url), name, rate[1], url)>>))))

\* parsers._extract_from_blocks
_extract_from_blocks(soup, url, bank, forced_usd) ==
    With(find_all(soup, {"tr", "article", "li", "section", "div"}), LAMBDA candidates :
      Concat([a \in 1..Len(candidates) |->
                BlockDeposit(candidates[a], url, bank, forced_usd)]))

\* the key of _dedup with the name taken as it is written
DedupKeyRawName(d) == <<d.site, d.name, d.rate>>

\* parsers._dedup: the first record of each key, in the order first seen
DedupKey(d) == <<d.site, Lower(Strip(d.name)), d.rate>>

RECURSIVE DedupFrom(_, _)
DedupFrom(items, seen) ==
    IF items = <<>> THEN <<>>
    ELSE With(DedupKey(Head(items)), LAMBDA key :
           IF key \in seen THEN DedupFrom(Tail(items), seen)
           ELSE <<Head(items)>> \o DedupFrom(Tail(items), seen \cup {key}))

_dedup(items) == DedupFrom(items, {})

-----------------------------------------------------------------------------
(* Link and endpoint discovery (parsers.py).                               *)

s_dollar == <<"$">>

\* a["href"] of every <a href=...> of the tree, in document order
Hrefs(soup) == SelectSeq(Descendants(soup), LAMBDA d : d.tag = "a" /\ d.href # <<>>)

\* one iteration of the loop of _collect_links, for the anchor a; st holds
\* seen, out and whether the loop has been left
CollectStep(base_url, a, st, limit) ==
    IF st.full THEN st
    ELSE
      With(Strip(a.href[1]), LAMBDA href :
      With(urljoin(base_url, href), LAMBDA u :
        IF \/ href = <<>>
           \/ ~(StartsWith(u, s_http) \/ StartsWith(u, s_https))
           \/ ~_same_domain(base_url, u)
           \/ u \in st.seen
        THEN st
        ELSE
          With(Lower(u), LAMBDA lu :
          With(\/ ContainsAny(lu, DEPOSIT_LINK_HINTS)
               \/ ContainsAny(Lower(NodeText(a)), DEPOSIT_LINK_HINTS)
               \/ Contains(lu, s_usd)
               \/ Contains(lu, s_dollar), LAMBDA hit :
          With(IF hit THEN Append(st.out, u) ELSE st.out, LAMBDA out2 :
            [seen |-> st.seen \cup {u}, out |-> out2,
             full |-> Len(out2) >= limit])))))

\* the loop of _collect_links over the anchors as[lo..hi], in order: the
\* first half and then, unless the loop has been left, the second half
\* from where the first half ended
RECURSIVE CollectRange(_, _, _, _, _, _)
CollectRange(base_url, as, lo, hi, st, limit) ==
    IF lo > hi \/ st.full THEN st
    ELSE IF lo = hi THEN CollectStep(base_url, as[lo], st, limit)
    ELSE With((lo + hi) \div 2, LAMBDA mid :
         With(CollectRange(base_url, as, lo, mid, st, limit), LAMBDA half :
           IF half.full THEN half
           ELSE CollectRange(base_url, as, mid + 1, hi, half, limit)))

\* parsers._collect_links
_collect_links(base_url, soup, limit) ==
    With(Hrefs(soup), LAMBDA as :
      CollectRange(base_url, as, 1, Len(as),
                   [seen |-> {}, out |-> <<>>, full |-> FALSE], limit).out)

s_dot_json == <<".", "j", "s", "o", "n">>

s_api == <<"/", "a", "p", "i", "/">>

s_get_list_pages == <<"g", "e", "t", "_", "l", "i", "s", "t", "_", "p", "a", "g", "e", "s">>

\* the characters that end a URL in JSON_URL_RE: \s " ' < >
UrlDelims == {" ", "\t", "\n", "\r", "\"", "'", "<", ">"}

At(s, i, p) == i >= 1 /\ i + Len(p) - 1 <= Len(s) /\ SubSeq(s, i, i + Len(p) - 1) = p

\* the index of the last character of the run of non-delimiters from s[p]
RECURSIVE UrlRunEnd(_, _)
UrlRunEnd(s, p) ==
    IF p <= Len(s) /\ s[p] \notin UrlDelims THEN UrlRunEnd(s, p + 1) ELSE p - 1

\* JSON_URL_RE (case ignored) tried at s[i]: the index of the last character
\* of the match, or 0; l is s.lower().  After the scheme the first
\* [^\s"'<>]+ is greedy: it gives back characters until one of the three
\* endings matches, so the ending that matches is the rightmost one of the
\* run.
JsonUrlEndAt(s, l, i) ==
    With(IF At(l, i, s_https) THEN i + 8
         ELSE IF At(l, i, s_http) THEN i + 7 ELSE 0, LAMBDA p :
      IF p = 0 THEN 0
      ELSE
        With(UrlRunEnd(s, p), LAMBDA e :
        With({a \in (p + 1)..e :
                \/ (At(l, a, s_dot_json) /\ a + 4 <= e)
                \/ (At(l, a, s_api) /\ a + 5 <= e)
                \/ (At(l, a, s_get_list_pages \o <<"/">>) /\ a + 15 <= e)}, LAMBDA as :
          IF as = {} THEN 0
          ELSE With(CHOOSE x \in as : \A y \in as : y <= x, LAMBDA a :
                 IF At(l, a, s_dot_json) THEN a + 4 ELSE e))))

\* [m.group("u") for m in JSON_URL_RE.finditer(html)], scanning from index i:
\* the leftmost match from i, then the scan goes on after it
RECURSIVE JsonUrlFindAll(_, _, _)
JsonUrlFindAll(s, l, i) ==
    With({a \in i..Len(s) : JsonUrlEndAt(s, l, a) # 0}, LAMBDA starts :
      IF starts = {} THEN <<>>
      ELSE With(CHOOSE a \in starts : \A b \in starts : a <= b, LAMBDA a :
           With(JsonUrlEndAt(s, l, a), LAMBDA e :
             <<SubSeq(s, a, e)>> \o JsonUrlFindAll(s, l, e + 1))))

Range(f) == {f[i] : i \in DOMAIN f}

\* the set `found` of _discover_json_urls, filtered as its last lines do.
\* The code turns this set into a list (at most 40 long) whose order is the
\* iteration order of a Python set of str.
DiscoveredJsonUrls(base_url, page) ==
    With(Lower(page.html), LAMBDA low :
    With(Range(JsonUrlFindAll(page.html, low, 1)), LAMBDA fromText :
    With(Hrefs(page.dom), LAMBDA as :
    With({ urljoin(base_url, Strip(as[i].href[1])) :
             i \in { j \in 1..Len(as) :
                       With(Lower(Strip(as[j].href[1])), LAMBDA h :
                         /\ h # <<>>
                         /\ \/ Contains(h, s_api)
                            \/ Contains(h, s_get_list_pages)
                            \/ EndsWith(h, s_dot_json)) } }, LAMBDA fromA :
      { u \in fromText \cup fromA :
          (StartsWith(u, s_http) \/ StartsWith(u, s_https)) /\ _same_domain(base_url, u) }))))

\* the orders in which a set can be listed
RECURSIVE Orders(_)
Orders(S) ==
    IF S = {} THEN {<<>>}
    ELSE UNION { { <<x>> \o o : o \in Orders(S \ {x}) } : x \in S }

\* parsers._discover_json_urls: the lists it can return
_discover_json_urls(base_url, page) ==
    { Prefix(o, 40) : o \in Orders(DiscoveredJsonUrls(base_url, page)) }

-----------------------------------------------------------------------------
(* JSON values and the two JSON strategies (parsers.py).  A JSON value is  *)
(* [t, k, s, items]: t is "dict", "list", "str" or "num"; k is the key     *)
(* under which the value sits in its dict; s is str(value) of a scalar;    *)
(* items are the values of a dict or list, in order.                       *)

JStr(k, s) == [t |-> "str", k |-> k, s |-> s, items |-> <<>>]

JNum(k, s) == [t |-> "num", k |-> k, s |-> s, items |-> <<>>]

JDict(k, items) == [t |-> "dict", k |-> k, s |-> <<>>, items |-> items]

JList(k, items) == [t |-> "list", k |-> k, s |-> <<>>, items |-> items]

UpperOf(c) == IF c \in DOMAIN UpperMap THEN UpperMap[c] ELSE c

Upper(s) == SubSeq([i \in 1..Len(s) |-> UpperOf(s[i])], 1, Len(s))

\* the loop "for k in keys: if k in obj and isinstance(obj[k], types): ...;
\* break": the value found, as an Optional
RECURSIVE FirstField(_, _, _)
FirstField(obj, keys, types) ==
    IF keys = <<>> THEN <<>>
    ELSE With(SelectSeq(obj.items, LAMBDA v : v.k = Head(keys) /\ v.t \in types), LAMBDA vs :
           IF vs # <<>> THEN <<vs[1]>> ELSE FirstField(obj, Tail(keys), types))

JCurrencyKeys ==
    << <<"c", "u", "r", "r", "e", "n", "c", "y">>,
       <<"v", "a", "l", "y", "u", "t", "a">>,
       <<"cyr_v", "cyr_a", "cyr_l", "cyr_yu", "cyr_t", "cyr_a">> >>

JRateKeys ==
    << <<"p", "e", "r", "c", "e", "n", "t">>,
       <<"r", "a", "t", "e">>,
       <<"s", "t", "a", "v", "k", "a">>,
       <<"f", "o", "i", "z">> >>

JNameKeys ==
    << <<"n", "a", "m", "e">>,
       <<"t", "i", "t", "l", "e">>,
       <<"d", "e", "p", "o", "s", "i", "t">>,
       <<"p", "r", "o", "d", "u", "c", "t">>,
       <<"c", "a", "p", "t", "i", "o", "n">> >>

s_USD == <<"U", "S", "D">>

\* what _walk_json appends for the dict obj itself: 0 or 1 Deposit
WalkDict(obj, url, bank) ==
    With(SelectSeq(obj.items, LAMBDA v : v.t \in {"str", "num"}), LAMBDA scalars :
    With(JoinSpace([a \in 1..Len(scalars) |-> _norm(scalars[a].s)]), LAMBDA t :
    With(FirstField(obj, JCurrencyKeys, {"str"}), LAMBDA cf :
    With(IF cf = <<>> THEN <<>> ELSE Upper(Strip(cf[1].s)), LAMBDA currency :
      IF ~((currency = s_USD) \/ (_is_usd_context(t) /\ Contains(Lower(t), s_usd)))
      THEN <<>>
      ELSE
        With(FirstField(obj, JRateKeys, {"str", "num"}), LAMBDA rf :
        With(IF rf = <<>> THEN <<>> ELSE rf[1].s, LAMBDA rate_raw :
        With(_extract_rate_from_text(IF rate_raw # <<>> THEN rate_raw ELSE t), LAMBDA rate :
          IF rate = <<>> THEN <<>>
          ELSE
            With(FirstField(obj, JNameKeys, {"str"}), LAMBDA nf :
            With(IF nf = <<>> THEN <<>> ELSE _norm(nf[1].s), LAMBDA name0 :
            With(IF name0 = <<>> THEN bank ELSE name0, LAMBDA name :
              <<Deposit(bank, domain_of(url), Prefix(name, 120), rate[1], url)>>
            ))))))))))

\* parsers._walk_json: the records it appends to out, in order
RECURSIVE _walk_json(_, _, _)
_walk_json(obj, url, bank) ==
    IF obj.t = "dict"
    THEN WalkDict(obj, url, bank)
           \o Concat([i \in 1..Len(obj.items) |-> _walk_json(obj.items[i], url, bank)])
    ELSE IF obj.t = "list"
    THEN Concat([i \in 1..Len(obj.items) |-> _walk_json(obj.items[i], url, bank)])
    ELSE <<>>

\* parsers.XB_API_URL
XB_API_URL ==
    <<"h", "t", "t", "p", "s", ":", "/", "/", "d", "a", "t", "a", ".", "e", "g", "o", "v", ".", "u", "z", "/", "a", "p", "i", "D", "a", "t", "a", "/", "M", "a", "i", "n", "D", "a", "t", "a", "/", "G", "e", "t", "B", "y", "F", "i", "l", "e", "?", "f", "i", "l", "e", "T", "y", "p", "e", "=", "1", "&", "i", "d", "=", "6", "1", "1", "2", "1", "d", "8", "0", "d", "b", "3", "2", "b", "9", "9", "5", "3", "8", "e", "0", "8", "3", "3", "c", "&", "l", "a", "n", "g", "=", "1", "&", "t", "a", "b", "l", "e", "T", "y", "p", "e", "=", "2">>

s_xb_uz == <<"x", "b", ".", "u", "z">>

s_xalq_banki == <<"X", "a", "l", "q", " ", "b", "a", "n", "k", "i">>

k_omonat_nomi == <<"O", "m", "o", "n", "a", "t", " ", "n", "o", "m", "i">>

k_yillik_foiz == <<"Y", "i", "l", "l", "i", "k", " ", "f", "o", "i", "z">>

k_badal == <<"B", "o", "s", "h", "l", "a", "n", "g", "'", "i", "c", "h", " ", "b", "a", "d", "a", "l", " ", "m", "i", "q", "d", "o", "r", "i">>

k_shartlar == <<"B", "o", "s", "h", "q", "a", " ", "s", "h", "a", "r", "t", "l", "a", "r">>

\* str(item.get(key, "")).strip() for the scalar fields of the open data
ItemGet(item, key) ==
    With(SelectSeq(item.items, LAMBDA v : v.k = key), LAMBDA vs :
      IF vs = <<>> THEN <<>> ELSE Strip(vs[1].s))

\* the acceptance test of _parse_xb_open_data: 0.0 <= rate <= MAX_USD_RATE
XbRateAccepted(rate) == DecLE(DecZero, rate) /\ DecLE(rate, MAX_USD_RATE)

\* one item of the loop of _parse_xb_open_data: the (key, Deposit) it offers
\* to out.setdefault, as a list of 0 or 1 Deposit
XbItem(item, source_url) ==
    With(ItemGet(item, k_omonat_nomi), LAMBDA name :
    With(ItemGet(item, k_yillik_foiz), LAMBDA rate_raw :
    With(JoinSpace(<<name, rate_raw, ItemGet(item, k_badal), ItemGet(item, k_shartlar)>>),
         LAMBDA blob :
      IF name = <<>> \/ ~_is_usd_context(blob) THEN <<>>
      ELSE With(parse_percent(rate_raw), LAMBDA rate :
             IF ~XbRateAccepted(rate) THEN <<>>
             ELSE <<Deposit(s_xalq_banki, s_xb_uz, name, rate, source_url)>>))))

\* out.setdefault(name.lower(), ...) over the offers: the first per key
RECURSIVE FirstPerName(_, _)
FirstPerName(items, seen) ==
    IF items = <<>> THEN <<>>
    ELSE With(Lower(Head(items).name), LAMBDA key :
           IF key \in seen THEN FirstPerName(Tail(items), seen)
           ELSE <<Head(items)>> \o FirstPerName(Tail(items), seen \cup {key}))

\* parsers._parse_xb_open_data, once the endpoint has answered with data
_parse_xb_open_data(data, source_url) ==
    FirstPerName(Concat([i \in 1..Len(data.items) |-> XbItem(data.items[i], source_url)]), {})

-----------------------------------------------------------------------------
(* Responses and their diagnosis (http.py, cli.py).  A response is         *)
(* [status_code, headers, text, pad]: headers is a list of [name, value];  *)
(* the body is text followed by pad further characters of markup that hold *)
(* none of the words the code looks for.                                   *)

Header(name, value) == [name |-> name, value |-> value]

\* headers.get(name, "") of requests' case-insensitive headers
HeaderGet(r, lname) ==
    With(SelectSeq(r.headers, LAMBDA h : Lower(h.name) = lname), LAMBDA hs :
      IF hs = <<>> THEN <<>> ELSE hs[1].value)

HeaderHas(r, lname) == \E i \in 1..Len(r.headers) : Lower(r.headers[i].name) = lname

\* http.py:47, the length under which a body counts as empty
ThinLen == 1500

s_div_open == <<"<", "d", "i", "v">>

s_id_eq == <<"i", "d", "=">>

Quotes == {"'", "\""}

\* <div[^>]+id=Q<name>Q[^>]*> is found in t (case ignored)
JsShellFor(t, name) ==
    With(Lower(t), LAMBDA l :
        \E i \in 1..Len(t) :
          /\ At(l, i, s_div_open)
          /\ \E j \in (i + 5)..Len(t) :
               /\ \A x \in (i + 4)..(j - 1) : t[x] # ">"
               /\ At(l, j, s_id_eq)
               /\ j + 3 <= Len(t) /\ t[j + 3] \in Quotes
               /\ At(l, j + 4, name)
               /\ j + 4 + Len(name) <= Len(t) /\ t[j + 4 + Len(name)] \in Quotes
               /\ \E g \in (j + 5 + Len(name))..Len(t) : t[g] = ">")

\* http.JS_SHELL_RE.search(t)
JsShell(t) == JsShellFor(t, <<"a", "p", "p">>) \/ JsShellFor(t, <<"r", "o", "o", "t">>)

\* http.looks_js_empty, of a body of text and pad
looks_js_empty(text, pad) ==
    With(Strip(text), LAMBDA t :
      IF Len(t) + pad < ThinLen THEN TRUE
      ELSE JsShell(t) /\ ~Contains(t, <<"%">>) /\ ~Contains(Lower(t), s_usd))

\* str(n) of a natural number
RECURSIVE IntStr(_)
IntStr(n) ==
    LET d == <<"0", "1", "2", "3", "4", "5", "6", "7", "8", "9">>[(n % 10) + 1]
    IN  IF n < 10 THEN <<d>> ELSE Append(IntStr(n \div 10), d)

BlockStatuses == {401, 403, 429, 503}

s_status_eq == <<"s", "t", "a", "t", "u", "s", "=">>

s_cloudflare == <<"c", "l", "o", "u", "d", "f", "l", "a", "r", "e">>

s_sucuri == <<"s", "u", "c", "u", "r", "i">>

s_antibot_cookie == <<"a", "n", "t", "i", "b", "o", "t", "_", "c", "o", "o", "k", "i", "e">>

s_antibot_page == <<"a", "n", "t", "i", "b", "o", "t", "_", "p", "a", "g", "e">>

s_thin == <<"t", "h", "i", "n", "_", "h", "t", "m", "l", "_", "o", "r", "_", "j", "s", "_", "s", "h", "e", "l", "l">>

\* ",".join(parts)
RECURSIVE JoinComma(_)
JoinComma(parts) ==
    IF parts = <<>> THEN <<>>
    ELSE IF Len(parts) = 1 THEN parts[1]
    ELSE parts[1] \o <<",">> \o JoinComma(Tail(parts))

\* http.diagnose_response: the list `signals` it builds
SignalParts(r) ==
    LET body == Prefix(r.text, 20000)
        cookie_blob == HeaderGet(r, <<"s", "e", "t", "-", "c", "o", "o", "k", "i", "e">>)
    IN    (IF r.status_code \in BlockStatuses
             THEN <<s_status_eq \o IntStr(r.status_code)>> ELSE <<>>)
          \o (IF HeaderHas(r, <<"c", "f", "-", "r", "a", "y">>)
                 \/ Contains(Lower(HeaderGet(r, <<"s", "e", "r", "v", "e", "r">>)), s_cloudflare)
                THEN <<s_cloudflare>> ELSE <<>>)
          \o (IF HeaderHas(r, <<"x", "-", "s", "u", "c", "u", "r", "i", "-", "i", "d">>)
                 \/ HeaderHas(r, <<"x", "-", "s", "u", "c", "u", "r", "i", "-", "c", "a", "c", "h", "e">>)
                THEN <<s_sucuri>> ELSE <<>>)
          \o (IF ContainsAny(Lower(cookie_blob), ANTI_COOKIE_WORDS)
                THEN <<s_antibot_cookie>> ELSE <<>>)
          \o (IF ContainsAny(Lower(body), ANTI_BODY_WORDS)
                THEN <<s_antibot_page>> ELSE <<>>)
          \o (IF r.status_code = 200 /\ looks_js_empty(r.text, r.pad)
                THEN <<s_thin>> ELSE <<>>)

\* http.diagnose_response: the signal string it returns
diagnose_response(r) == JoinComma(SignalParts(r))

\* _is_hard_block deciding on the status alone
HardBlockByStatusOnly(status, signals) ==
    status # <<>> /\ status[1] \in BlockStatuses

\* _is_hard_block with "or" between the WAF and the anti-bot test
HardBlockWafOrAntibot(status, signals) ==
    With(Lower(signals), LAMBDA s :
      IF status # <<>> /\ status[1] \in BlockStatuses THEN TRUE
      ELSE \/ Contains(s, s_cloudflare) \/ Contains(s, s_sucuri)
           \/ Contains(s, s_antibot_cookie) \/ Contains(s, s_antibot_page))

\* cli._is_hard_block; status is an Optional
_is_hard_block(status, signals) ==
    With(Lower(signals), LAMBDA s :
      IF status # <<>> /\ status[1] \in BlockStatuses THEN TRUE
      ELSE /\ Contains(s, s_cloudflare) \/ Contains(s, s_sucuri)
           /\ Contains(s, s_antibot_cookie) \/ Contains(s, s_antibot_page))

\* cli._simple_has_usd, cli._simple_has_percent
_simple_has_usd(html) == ContainsAny(Lower(html), USD_TOKENS)

_simple_has_percent(html) == Contains(html, <<"%">>)

\* the classification with the USD test tried before the JS-shell test
ResultOfUsdFirst(rows_found, text, pad) ==
    IF rows_found > 0 THEN "OK"
    ELSE IF ~_simple_has_usd(text) THEN "NO_USD_MATCH"
    ELSE IF looks_js_empty(text, pad) THEN "JS_RENDER_REQUIRED"
    ELSE IF ~_simple_has_percent(text) THEN "NO_RATES_FOUND"
    ELSE "NO_MATCHING_DEPOSITS"

\* cli.main, lines 88-104: the result of a site that was parsed
ResultOf(rows_found, text, pad) ==
    IF rows_found > 0 THEN "OK"
    ELSE IF looks_js_empty(text, pad) THEN "JS_RENDER_REQUIRED"
    ELSE IF ~_simple_has_usd(text) THEN "NO_USD_MATCH"
    ELSE IF ~_simple_has_percent(text) THEN "NO_RATES_FOUND"
    ELSE "NO_MATCHING_DEPOSITS"

-----------------------------------------------------------------------------
(* The modelled web: what each URL can answer.  A page is                  *)
(* [html, pad, dom, raises]: the source text (followed by pad characters   *)
(* of filler), the tree BeautifulSoup builds from it, and whether the      *)
(* document makes BeautifulSoup or the extraction raise.                   *)

\* the input URLs
u_bank == <<"h", "t", "t", "p", "s", ":", "/", "/", "b", "a", "n", "k", ".", "e", "x", "a", "m", "p", "l", "e", "/", "d", "e", "p", "o", "s", "i", "t", "s">>

u_alfa == <<"h", "t", "t", "p", "s", ":", "/", "/", "a", "l", "f", "a", ".", "u", "z", "/">>

u_alfa_usd == <<"h", "t", "t", "p", "s", ":", "/", "/", "a", "l", "f", "a", ".", "u", "z", "/", "d", "e", "p", "o", "s", "i", "t", "/", "u", "s", "d">>

u_alfa_omonat == <<"h", "t", "t", "p", "s", ":", "/", "/", "a", "l", "f", "a", ".", "u", "z", "/", "o", "m", "o", "n", "a", "t">>

u_alfa_api == <<"h", "t", "t", "p", "s", ":", "/", "/", "a", "l", "f", "a", ".", "u", "z", "/", "a", "p", "i", "/", "r", "a", "t", "e", "s">>

u_xb == <<"h", "t", "t", "p", "s", ":", "/", "/", "w", "w", "w", ".", "x", "b", ".", "u", "z", "/", "d", "e", "p", "o", "s", "i", "t", "s">>

u_news == <<"h", "t", "t", "p", "s", ":", "/", "/", "n", "e", "w", "s", ".", "u", "z", "/">>

\* a URL urlparse rejects
u_bad == <<"h", "t", "t", "p", ":", "/", "/", "[", "b", "a", "d">>

\* https://bank.example/deposits: the page of the end-to-end scenario
html_bank ==
    <<"<", "h", "1", ">", "E", "x", "a", "m", "p", "l", "e", " ", "B", "a",
      "n", "k", "<", "/", "h", "1", ">", "<", "t", "a", "b", "l", "e", ">",
      "<", "t", "r", ">", "<", "t", "h", ">", "C", "u", "r", "r", "e", "n",
      "c", "y", "<", "/", "t", "h", ">", "<", "t", "h", ">", "D", "e", "p",
      "o", "s", "i", "t", "<", "/", "t", "h", ">", "<", "t", "h", ">", "R",
      "a", "t", "e", "<", "/", "t", "h", ">", "<", "/", "t", "r", ">", "<",
      "t", "r", ">", "<", "t", "d", ">", "U", "S", "D", "<", "/", "t", "d",
      ">", "<", "t", "d", ">", "P", "r", "e", "m", "i", "u", "m", " ", "S",
      "a", "v", "i", "n", "g", "s", "<", "/", "t", "d", ">", "<", "t", "d",
      ">", "7", ".", "2", "%", "<", "/", "t", "d", ">", "<", "/", "t", "r",
      ">", "<", "t", "r", ">", "<", "t", "d", ">", "U", "Z", "S", "<", "/",
      "t", "d", ">", "<", "t", "d", ">", "S", "t", "a", "n", "d", "a", "r",
      "d", "<", "/", "t", "d", ">", "<", "t", "d", ">", "2", "0", "%", "<",
      "/", "t", "d", ">", "<", "/", "t", "r", ">", "<", "/", "t", "a", "b",
      "l", "e", ">">>

dom_bank ==
    El("html", <<
      El("body", <<
        El("h1", <<Text(<<"E", "x", "a", "m", "p", "l", "e", " ", "B", "a", "n", "k">>)>>),
        El("table", <<
          El("tr", <<
            El("th", <<Text(<<"C", "u", "r", "r", "e", "n", "c", "y">>)>>),
            El("th", <<Text(<<"D", "e", "p", "o", "s", "i", "t">>)>>),
            El("th", <<Text(<<"R", "a", "t", "e">>)>>)>>),
          El("tr", <<
            El("td", <<Text(<<"U", "S", "D">>)>>),
            El("td", <<Text(<<"P", "r", "e", "m", "i", "u", "m", " ", "S", "a", "v", "i", "n", "g", "s">>)>>),
            El("td", <<Text(<<"7", ".", "2", "%">>)>>)>>),
          El("tr", <<
            El("td", <<Text(<<"U", "Z", "S">>)>>),
            El("td", <<Text(<<"S", "t", "a", "n", "d", "a", "r", "d">>)>>),
            El("td", <<Text(<<"2", "0", "%">>)>>)>>)>>)>>)>>)

p_bank == [html |-> html_bank, pad |-> 0, dom |-> dom_bank, raises |-> FALSE]

\* https://alfa.uz/: links to two deposit pages, to itself, to another
\* site and to a page without a hint; one API URL in a script
html_alfa ==
    <<"<", "h", "1", ">", "A", "l", "f", "a", " ", "B", "a", "n", "k", "<",
      "/", "h", "1", ">", "<", "d", "i", "v", ">", "<", "a", " ", "h", "r",
      "e", "f", "=", "\"", "/", "d", "e", "p", "o", "s", "i", "t", "/",
      "u", "s", "d", "\"", ">", "U", "S", "D", "<", "/", "a", ">", "<",
      "a", " ", "h", "r", "e", "f", "=", "\"", "h", "t", "t", "p", "s",
      ":", "/", "/", "a", "l", "f", "a", ".", "u", "z", "/", "o", "m", "o",
      "n", "a", "t", "\"", ">", "O", "m", "o", "n", "a", "t", "<", "/",
      "a", ">", "<", "a", " ", "h", "r", "e", "f", "=", "\"", "h", "t",
      "t", "p", "s", ":", "/", "/", "a", "l", "f", "a", ".", "u", "z", "/",
      "\"", ">", "D", "e", "p", "o", "s", "i", "t", "s", " ", "h", "o",
      "m", "e", "<", "/", "a", ">", "<", "a", " ", "h", "r", "e", "f", "=",
      "\"", "h", "t", "t", "p", "s", ":", "/", "/", "o", "t", "h", "e",
      "r", ".", "u", "z", "/", "d", "e", "p", "o", "s", "i", "t", "\"",
      ">", "P", "a", "r", "t", "n", "e", "r", "<", "/", "a", ">", "<", "a",
      " ", "h", "r", "e", "f", "=", "\"", "/", "a", "b", "o", "u", "t",
      "\"", ">", "A", "b", "o", "u", "t", "<", "/", "a", ">", "<", "/",
      "d", "i", "v", ">", "<", "s", "c", "r", "i", "p", "t", ">", "l", "o",
      "a", "d", "(", "\"", "h", "t", "t", "p", "s", ":", "/", "/", "a",
      "l", "f", "a", ".", "u", "z", "/", "a", "p", "i", "/", "r", "a", "t",
      "e", "s", "\"", ")", "<", "/", "s", "c", "r", "i", "p", "t", ">">>

dom_alfa ==
    El("html", <<
      El("body", <<
        El("h1", <<Text(<<"A", "l", "f", "a", " ", "B", "a", "n", "k">>)>>),
        El("div", <<
          Anchor(<<"/", "d", "e", "p", "o", "s", "i", "t", "/", "u", "s", "d">>, <<Text(<<"U", "S", "D">>)>>),
          Anchor(<<"h", "t", "t", "p", "s", ":", "/", "/", "a", "l", "f", "a", ".", "u", "z", "/", "o", "m", "o", "n", "a", "t">>, <<Text(<<"O", "m", "o", "n", "a", "t">>)>>),
          Anchor(<<"h", "t", "t", "p", "s", ":", "/", "/", "a", "l", "f", "a", ".", "u", "z", "/">>, <<Text(<<"D", "e", "p", "o", "s", "i", "t", "s", " ", "h", "o", "m", "e">>)>>),
          Anchor(<<"h", "t", "t", "p", "s", ":", "/", "/", "o", "t", "h", "e", "r", ".", "u", "z", "/", "d", "e", "p", "o", "s", "i", "t">>, <<Text(<<"P", "a", "r", "t", "n", "e", "r">>)>>),
          Anchor(<<"/", "a", "b", "o", "u", "t">>, <<Text(<<"A", "b", "o", "u", "t">>)>>)>>),
        El("script", <<Text(<<"l", "o", "a", "d", "(", "\"", "h", "t", "t", "p", "s", ":", "/", "/", "a", "l", "f", "a", ".", "u", "z", "/", "a", "p", "i", "/", "r", "a", "t", "e", "s", "\"", ")">>)>>)>>)>>)

p_alfa == [html |-> html_alfa, pad |-> 2000, dom |-> dom_alfa, raises |-> FALSE]

\* https://alfa.uz/deposit/usd: one block, and a link back to the root
html_alfa_usd ==
    <<"<", "t", "i", "t", "l", "e", ">", "A", "l", "f", "a", "<", "/", "t",
      "i", "t", "l", "e", ">", "<", "d", "i", "v", ">", "<", "h", "3", ">",
      "G", "o", "l", "d", "<", "/", "h", "3", ">", "<", "p", ">", "6", ".",
      "5", "%", " ", "a", "n", "n", "u", "a", "l", "<", "/", "p", ">", "<",
      "/", "d", "i", "v", ">", "<", "a", " ", "h", "r", "e", "f", "=",
      "\"", "h", "t", "t", "p", "s", ":", "/", "/", "a", "l", "f", "a",
      ".", "u", "z", "/", "\"", ">", "D", "e", "p", "o", "s", "i", "t",
      "s", "<", "/", "a", ">">>

dom_alfa_usd ==
    El("html", <<
      El("head", <<
        El("title", <<Text(<<"A", "l", "f", "a">>)>>)>>),
      El("body", <<
        El("div", <<
          El("h3", <<Text(<<"G", "o", "l", "d">>)>>),
          El("p", <<Text(<<"6", ".", "5", "%", " ", "a", "n", "n", "u", "a", "l">>)>>)>>),
        Anchor(<<"h", "t", "t", "p", "s", ":", "/", "/", "a", "l", "f", "a", ".", "u", "z", "/">>, <<Text(<<"D", "e", "p", "o", "s", "i", "t", "s">>)>>)>>)>>)

p_alfa_usd == [html |-> html_alfa_usd, pad |-> 0, dom |-> dom_alfa_usd, raises |-> FALSE]

\* https://alfa.uz/omonat: two list items
html_alfa_omonat ==
    <<"<", "u", "l", ">", "<", "l", "i", ">", "<", "b", ">", "G", "O", "L",
      "D", "<", "/", "b", ">", " ", "U", "S", "D", " ", "6", ".", "5", "%",
      "<", "/", "l", "i", ">", "<", "l", "i", ">", "<", "b", ">", "S", "i",
      "l", "v", "e", "r", "<", "/", "b", ">", " ", "U", "S", "D", " ", "4",
      "%", "<", "/", "l", "i", ">", "<", "/", "u", "l", ">">>

dom_alfa_omonat ==
    El("html", <<
      El("body", <<
        El("ul", <<
          El("li", <<
            El("b", <<Text(<<"G", "O", "L", "D">>)>>),
            Text(<<" ", "U", "S", "D", " ", "6", ".", "5", "%">>)>>),
          El("li", <<
            El("b", <<Text(<<"S", "i", "l", "v", "e", "r">>)>>),
            Text(<<" ", "U", "S", "D", " ", "4", "%">>)>>)>>)>>)>>)

p_alfa_omonat == [html |-> html_alfa_omonat, pad |-> 0, dom |-> dom_alfa_omonat, raises |-> FALSE]

\* the same URL answering with a document that cannot be processed
p_alfa_omonat_bad == [p_alfa_omonat EXCEPT !.raises = TRUE]

\* https://www.xb.uz/deposits
html_xb ==
    <<"<", "h", "1", ">", "X", "a", "l", "q", " ", "b", "a", "n", "k", "i",
      "<", "/", "h", "1", ">", "<", "p", ">", "O", "m", "o", "n", "a", "t",
      "l", "a", "r", "<", "/", "p", ">">>

dom_xb ==
    El("html", <<
      El("body", <<
        El("h1", <<Text(<<"X", "a", "l", "q", " ", "b", "a", "n", "k", "i">>)>>),
        El("p", <<Text(<<"O", "m", "o", "n", "a", "t", "l", "a", "r">>)>>)>>)>>)

p_xb == [html |-> html_xb, pad |-> 0, dom |-> dom_xb, raises |-> FALSE]

\* https://news.uz/ without a USD token
html_news_a ==
    <<"<", "p", ">", "W", "e", "l", "c", "o", "m", "e", "<", "/", "p", ">">>

dom_news_a ==
    El("html", <<
      El("body", <<
        El("p", <<Text(<<"W", "e", "l", "c", "o", "m", "e">>)>>)>>)>>)

p_news_a == [html |-> html_news_a, pad |-> 2000, dom |-> dom_news_a, raises |-> FALSE]

\* https://news.uz/ with a USD token and no percent sign
html_news_b ==
    <<"<", "p", ">", "U", "S", "D", " ", "a", "c", "c", "o", "u", "n", "t",
      "s", "<", "/", "p", ">">>

dom_news_b ==
    El("html", <<
      El("body", <<
        El("p", <<Text(<<"U", "S", "D", " ", "a", "c", "c", "o", "u", "n", "t", "s">>)>>)>>)>>)

p_news_b == [html |-> html_news_b, pad |-> 2000, dom |-> dom_news_b, raises |-> FALSE]

\* https://news.uz/ with a USD token and a percent sign, no deposit
html_news_c ==
    <<"<", "p", ">", "U", "S", "D", " ", "l", "o", "a", "n", "s", " ", "5",
      "0", "%", "<", "/", "p", ">">>

dom_news_c ==
    El("html", <<
      El("body", <<
        El("p", <<Text(<<"U", "S", "D", " ", "l", "o", "a", "n", "s", " ", "5", "0", "%">>)>>)>>)>>)

p_news_c == [html |-> html_news_c, pad |-> 2000, dom |-> dom_news_c, raises |-> FALSE]

\* https://news.uz/ as a JavaScript shell
html_news_d ==
    <<"<", "d", "i", "v", " ", "c", "l", "a", "s", "s", "=", "\"", "x",
      "\"", " ", "i", "d", "=", "\"", "r", "o", "o", "t", "\"", ">", "<",
      "/", "d", "i", "v", ">">>

dom_news_d ==
    El("html", <<
      El("body", <<
        El("div", <<>>)>>)>>)

p_news_d == [html |-> html_news_d, pad |-> 2000, dom |-> dom_news_d, raises |-> FALSE]

\* parsers.py:382 the cap on visited pages
MaxVisited == 20

\* parsers.py:406 the limit passed to _collect_links
LinkLimit == 200

\* https://hub.uz/: a root page of n picture links /deposit/1 .. /deposit/n,
\* laid out in <nav> rows of 15
u_hub == <<"h", "t", "t", "p", "s", ":", "/", "/", "h", "u", "b", ".", "u", "z", "/">>

HubHref(k) == <<"/", "d", "e", "p", "o", "s", "i", "t", "/">> \o IntStr(k)

HubAnchorHtml(k) == <<"<", "a", " ", "h", "r", "e", "f", "=", "\"">> \o HubHref(k) \o <<"\"", ">", "<", "i", "m", "g", ">", "<", "/", "a", ">">>

\* the links of row r of n links
HubRow(r, n) == ((r - 1) * 15 + 1)..(IF r * 15 < n THEN r * 15 ELSE n)

HubRows(n) == 1..((n + 14) \div 15)

HubRowLinks(r, n) == [a \in 1..Cardinality(HubRow(r, n)) |-> (r - 1) * 15 + a]

html_hub(n) ==
    Concat([r \in HubRows(n) |->
              <<"<", "n", "a", "v", ">">>
              \o Concat([a \in 1..Cardinality(HubRow(r, n)) |->
                           HubAnchorHtml(HubRowLinks(r, n)[a])])
              \o <<"<", "/", "n", "a", "v", ">">>])

dom_hub(n) ==
    El("html", <<
      El("body", [r \in HubRows(n) |->
                    El("nav", [a \in 1..Cardinality(HubRow(r, n)) |->
                                 Anchor(HubHref(HubRowLinks(r, n)[a]),
                                        <<El("img", <<>>)>>)])])>>)

p_hub(n) == [html |-> html_hub(n), pad |-> 2000, dom |-> dom_hub(n), raises |-> FALSE]

\* the sizes of the root page of hub.uz: a few links, more than the crawl
\* visits, and more than _collect_links returns
HubSizes == {2, MaxVisited + 5, LinkLimit + 5}

\* a page of hub.uz below the root: a link to one more deposit page and a
\* link back to the root
html_hub_leaf ==
    <<"<", "p", ">", "T", "e", "r", "m", "s", "<", "/", "p", ">", "<", "a",
      " ", "h", "r", "e", "f", "=", "\"", "/", "o", "m", "o", "n", "a",
      "t", "/", "e", "x", "t", "r", "a", "\"", ">", "M", "o", "r", "e",
      "<", "/", "a", ">", "<", "a", " ", "h", "r", "e", "f", "=", "\"",
      "/", "\"", ">", "D", "e", "p", "o", "s", "i", "t", "s", "<", "/",
      "a", ">">>

dom_hub_leaf ==
    El("html", <<
      El("body", <<
        El("p", <<Text(<<"T", "e", "r", "m", "s">>)>>),
        Anchor(<<"/", "o", "m", "o", "n", "a", "t", "/", "e", "x", "t", "r", "a">>, <<Text(<<"M", "o", "r", "e">>)>>),
        Anchor(<<"/">>, <<Text(<<"D", "e", "p", "o", "s", "i", "t", "s">>)>>)>>)>>)

p_hub_leaf == [html |-> html_hub_leaf, pad |-> 2000, dom |-> dom_hub_leaf, raises |-> FALSE]

\* what a URL can answer with when a fetch of it succeeds
Web(u) ==
    CASE u = u_bank -> {p_bank}
      [] u = u_alfa -> {p_alfa}
      [] u = u_alfa_usd -> {p_alfa_usd}
      [] u = u_alfa_omonat -> {p_alfa_omonat, p_alfa_omonat_bad}
      [] u = u_xb -> {p_xb}
      [] u = u_news -> {p_news_a, p_news_b, p_news_c, p_news_d}
      [] u = u_hub -> {p_hub(n) : n \in HubSizes}
      [] StartsWith(u, u_hub) /\ u # u_hub -> {p_hub_leaf}
      [] OTHER -> {}

\* the answers of a JSON endpoint: [kind, data]; kind is "json" (data is the
\* parsed value), "malformed" (r.json() raises) or "html" (not JSON)
JsonAnswer(kind, data) == [kind |-> kind, data |-> data]

j_none == JList(<<>>, <<>>)

j_alfa ==
    JDict(<<>>, <<
      JList(<<"i", "t", "e", "m", "s">>, <<
        JDict(<<>>, <<
          JStr(<<"c", "u", "r", "r", "e", "n", "c", "y">>, <<"u", "s", "d">>),
          JStr(<<"n", "a", "m", "e">>, <<"G", "o", "l", "d">>),
          JNum(<<"r", "a", "t", "e">>, <<"6", ".", "5">>)>>)>>)>>)

j_xb ==
    JList(<<>>, <<
      JDict(<<>>, <<
        JStr(<<"O", "m", "o", "n", "a", "t", " ", "n", "o", "m", "i">>, <<"D", "o", "l", "l", "a", "r", " ", "P", "l", "u", "s">>),
        JStr(<<"Y", "i", "l", "l", "i", "k", " ", "f", "o", "i", "z">>, <<"4", "%">>),
        JStr(<<"B", "o", "s", "h", "l", "a", "n", "g", "'", "i", "c", "h", " ", "b", "a", "d", "a", "l", " ", "m", "i", "q", "d", "o", "r", "i">>, <<"1", "0", "0", " ", "U", "S", "D">>),
        JStr(<<"B", "o", "s", "h", "q", "a", " ", "s", "h", "a", "r", "t", "l", "a", "r">>, <<>>)>>),
      JDict(<<>>, <<
        JStr(<<"O", "m", "o", "n", "a", "t", " ", "n", "o", "m", "i">>, <<"U", "S", "D", " ", "F", "l", "e", "x">>),
        JStr(<<"Y", "i", "l", "l", "i", "k", " ", "f", "o", "i", "z">>, <<>>),
        JStr(<<"B", "o", "s", "h", "l", "a", "n", "g", "'", "i", "c", "h", " ", "b", "a", "d", "a", "l", " ", "m", "i", "q", "d", "o", "r", "i">>, <<"5", "0", "0", " ", "U", "S", "D">>),
        JStr(<<"B", "o", "s", "h", "q", "a", " ", "s", "h", "a", "r", "t", "l", "a", "r">>, <<>>)>>),
      JDict(<<>>, <<
        JStr(<<"O", "m", "o", "n", "a", "t", " ", "n", "o", "m", "i">>, <<"d", "o", "l", "l", "a", "r", " ", "p", "l", "u", "s">>),
        JStr(<<"Y", "i", "l", "l", "i", "k", " ", "f", "o", "i", "z">>, <<"5", "%">>),
        JStr(<<"B", "o", "s", "h", "l", "a", "n", "g", "'", "i", "c", "h", " ", "b", "a", "d", "a", "l", " ", "m", "i", "q", "d", "o", "r", "i">>, <<"1", "0", "0", " ", "U", "S", "D">>),
        JStr(<<"B", "o", "s", "h", "q", "a", " ", "s", "h", "a", "r", "t", "l", "a", "r">>, <<>>)>>),
      JDict(<<>>, <<
        JStr(<<"O", "m", "o", "n", "a", "t", " ", "n", "o", "m", "i">>, <<"M", "i", "l", "l", "i", "y">>),
        JStr(<<"Y", "i", "l", "l", "i", "k", " ", "f", "o", "i", "z">>, <<"2", "0", "%">>),
        JStr(<<"B", "o", "s", "h", "l", "a", "n", "g", "'", "i", "c", "h", " ", "b", "a", "d", "a", "l", " ", "m", "i", "q", "d", "o", "r", "i">>, <<"1", "0", "0", "0", " ", "s", "o", "'", "m">>),
        JStr(<<"B", "o", "s", "h", "q", "a", " ", "s", "h", "a", "r", "t", "l", "a", "r">>, <<>>)>>)>>)

JsonWeb(u) ==
    CASE u = u_alfa_api -> {JsonAnswer("json", j_alfa), JsonAnswer("malformed", j_none),
                            JsonAnswer("html", j_none)}
      [] u = XB_API_URL -> {JsonAnswer("json", j_xb), JsonAnswer("malformed", j_none)}
      [] OTHER -> {}

-----------------------------------------------------------------------------
(* The run: cli.main over the input URLs, with parsers.parse_url and       *)
(* http.fetch.  Every request the code makes is one step whose outcome     *)
(* (an exception, or one of the answers of the modelled web) is chosen by  *)
(* the environment.                                                        *)

\* the longest list of input URLs explored
MaxUrls == 2

\* http.py:38 stop_after_attempt(3)
MaxAttempts == 3

InputUrls == {u_bank, u_alfa, u_xb, u_news, u_bad}

\* what the first request of a site can be answered with, besides the body:
\* a plain 200, a 200 behind Cloudflare with its bot-management cookie, and a
\* plain 503
ProbeKinds ==
    { [status |-> 200, headers |-> <<>>],
      [status |-> 200,
       headers |-> <<Header(<<"S", "e", "r", "v", "e", "r">>, <<"c", "l", "o", "u", "d", "f", "l", "a", "r", "e">>),
                     Header(<<"S", "e", "t", "-", "C", "o", "o", "k", "i", "e">>, <<"_", "_", "c", "f", "_", "b", "m", "=", "1">>)>>],
      [status |-> 503, headers |-> <<>>] }

VARIABLES
    urls,          \* the input list (load_urls)
    i,             \* the position of the for loop of main, from 1
    pc,            \* where the run is: "loop", "probe", "crawl", "fetch",
                   \* "json", "xb", "done" or "aborted"
    sites,         \* main's list sites
    deposits_all,  \* main's list deposits_all
    site,          \* the locals of the loop body for urls[i]
    crawl,         \* the locals of parse_url for urls[i]
    audit          \* history, one entry per entry of sites: the requests
                   \* made for the site, what raised ("none", "probe",
                   \* "fetch", "document" or "xb_json"), the attempts of the
                   \* fetch that raised, deposits_all before the site, the
                   \* records all_deps held when the site ended, and what
                   \* the first answer looked like

vars == <<urls, i, pc, sites, deposits_all, site, crawl, audit>>

IdleSite ==
    [dom |-> <<>>, http_status |-> <<>>, signals |-> <<>>, text |-> <<>>,
     pad |-> 0, requests |-> 0]

IdleCrawl ==
    [visited |-> {}, q |-> <<>>, all_deps |-> <<>>, u |-> <<>>, depth |-> 0,
     attempt |-> 0, deps |-> <<>>, links |-> <<>>, bank |-> <<>>, jq |-> <<>>]

\* models.SiteStatus
SiteStatus(input_url, domain, http_status, signals, result, note, rows_found) ==
    [input_url |-> input_url, domain |-> domain, http_status |-> http_status,
     signals |-> signals, result |-> result, note |-> note,
     rows_found |-> rows_found]

n_js == <<"H", "T", "M", "L", " ", "l", "o", "o", "k", "s", " ", "l", "i", "k", "e", " ", "a", " ", "J", "S", " ", "s", "h", "e", "l", "l", " ", "o", "r", " ", "t", "o", "o", " ", "t", "h", "i", "n">>

n_no_usd == <<"N", "o", " ", "U", "S", "D", " ", "m", "a", "r", "k", "e", "r", "s", " ", "f", "o", "u", "n", "d">>

n_no_pct == <<"N", "o", " ", "p", "e", "r", "c", "e", "n", "t", " ", "v", "a", "l", "u", "e", "s", " ", "f", "o", "u", "n", "d">>

n_no_match == <<"U", "S", "D", " ", "m", "a", "r", "k", "e", "r", "s", " ", "e", "x", "i", "s", "t", " ", "b", "u", "t", " ", "n", "o", " ", "v", "a", "l", "i", "d", " ", "d", "e", "p", "o", "s", "i", "t", "/", "r", "a", "t", "e", " ", "p", "a", "i", "r", "s", " ", "d", "e", "t", "e", "c", "t", "e", "d">>

\* the exceptions of the model, as f"{type(e).__name__}: {str(e)[:180]}"
e_connection == <<"C", "o", "n", "n", "e", "c", "t", "i", "o", "n", "E", "r", "r", "o", "r", ":", " ">>

e_markup == <<"P", "a", "r", "s", "e", "r", "R", "e", "j", "e", "c", "t", "e", "d", "M", "a", "r", "k", "u", "p", ":", " ">>

e_json == <<"J", "S", "O", "N", "D", "e", "c", "o", "d", "e", "E", "r", "r", "o", "r", ":", " ">>

NoteOf(result) ==
    CASE result = "JS_RENDER_REQUIRED" -> n_js
      [] result = "NO_USD_MATCH" -> n_no_usd
      [] result = "NO_RATES_FOUND" -> n_no_pct
      [] result = "NO_MATCHING_DEPOSITS" -> n_no_match
      [] OTHER -> <<>>

Init ==
    /\ urls \in UNION { [1..n -> InputUrls] : n \in 0..MaxUrls }
    /\ i = 1
    /\ pc = "loop"
    /\ sites = <<>>
    /\ deposits_all = <<>>
    /\ site = IdleSite
    /\ crawl = IdleCrawl
    /\ audit = <<>>

\* the history entry of the site that ends now; s holds the locals of the
\* loop body, the last request counted
AuditEntry(s, cause, attempts) ==
    [requests |-> s.requests, cause |-> cause, attempts |-> attempts,
     before |-> deposits_all,
     candidates |-> Len(crawl.all_deps),
     js_empty |-> looks_js_empty(s.text, s.pad),
     has_usd |-> _simple_has_usd(s.text),
     has_pct |-> _simple_has_percent(s.text)]

\* the locals of the loop body after one more request
Requested == [site EXCEPT !.requests = @ + 1]

\* the end of one iteration of the for loop: sites.append(...) and on to the
\* next URL
EndSite(status, newDeposits, entry) ==
    /\ sites' = Append(sites, status)
    /\ deposits_all' = newDeposits
    /\ audit' = Append(audit, entry)
    /\ i' = i + 1
    /\ pc' = "loop"
    /\ site' = IdleSite
    /\ crawl' = IdleCrawl
    /\ UNCHANGED urls

\* the except blocks keeping what the crawl had collected
SiteErrorKeepingRecords(note, cause, attempts) ==
    EndSite(SiteStatus(urls[i], site.dom, site.http_status, site.signals,
                       "ERROR", note, 0),
            deposits_all \o crawl.all_deps,
            AuditEntry(Requested, cause, attempts))

\* cli.main, lines 110-121: the two except blocks
SiteError(note, cause, attempts) ==
    EndSite(SiteStatus(urls[i], site.dom, site.http_status, site.signals,
                       "ERROR", note, 0),
            deposits_all,
            AuditEntry(Requested, cause, attempts))

\* cli.main, lines 84-108: parse_url has returned deps; s holds the locals
\* of the loop body, the last request counted
SiteParsed(deps, s) ==
    \E result \in {ResultOf(Len(deps), site.text, site.pad)} :
      EndSite(SiteStatus(urls[i], site.dom, site.http_status, site.signals,
                         result, NoteOf(result), Len(deps)),
              deposits_all \o deps,
              AuditEntry(s, "none", 0))

\* cli.main, lines 62-69: dom = domain_of(url) stands before the try, so a
\* ValueError of urlparse leaves main
StartSite ==
    /\ pc = "loop"
    /\ i <= Len(urls)
    /\ IF UrlparseRaises(urls[i])
       THEN /\ pc' = "aborted"
            /\ UNCHANGED <<urls, i, sites, deposits_all, site, crawl, audit>>
       ELSE /\ pc' = "probe"
            /\ site' = [IdleSite EXCEPT !.dom = domain_of(urls[i])]
            /\ UNCHANGED <<urls, i, sites, deposits_all, crawl, audit>>

\* cli.main, line 72: session.get raises
ProbeFails ==
    /\ pc = "probe"
    /\ SiteError(e_connection, "probe", 1)

\* parsers.parse_url, entered from cli.main line 84
EnterParseUrl(url, answered) ==
    /\ site' = answered
    /\ IF EndsWith(domain_of(url), s_xb_uz)
       THEN /\ pc' = "xb"
            /\ crawl' = IdleCrawl
       ELSE /\ pc' = "crawl"
            /\ crawl' = [IdleCrawl EXCEPT !.q = <<[u |-> url, depth |-> 0]>>]
    /\ UNCHANGED <<urls, i, sites, deposits_all, audit>>

\* cli.main, lines 72-84: session.get answers
ProbeAnswers ==
    /\ pc = "probe"
    /\ \E k \in ProbeKinds, p \in Web(urls[i]) :
       \E r \in {[status_code |-> k.status, headers |-> k.headers,
                   text |-> p.html, pad |-> p.pad]} :
       \E signals \in {diagnose_response(r)} :
       \E answered \in {[site EXCEPT !.http_status = <<r.status_code>>,
                                      !.signals = signals,
                                      !.text = r.text, !.pad = r.pad,
                                      !.requests = @ + 1]} :
         IF _is_hard_block(<<r.status_code>>, signals)
         THEN EndSite(SiteStatus(urls[i], site.dom, <<r.status_code>>, signals,
                                 "BLOCKED",
                                 IF signals # <<>> THEN signals
                                 ELSE s_status_eq \o IntStr(r.status_code),
                                 0),
                      deposits_all,
                      AuditEntry(answered, "none", 0))
         ELSE EnterParseUrl(urls[i], answered)

\* the head of the while loop without the cap on visited pages
RECURSIVE PopNextUncapped(_, _)
PopNextUncapped(q, visited) ==
    IF q = <<>>
    THEN [stop |-> TRUE, q |-> q, e |-> [u |-> <<>>, depth |-> 0]]
    ELSE IF Head(q).u \in visited THEN PopNextUncapped(Tail(q), visited)
    ELSE [stop |-> FALSE, q |-> Tail(q), e |-> Head(q)]

\* the head of the while loop of _parse_universal: entries already visited
\* are popped and skipped; stop is TRUE when the loop ends
RECURSIVE PopNext(_, _)
PopNext(q, visited) ==
    IF q = <<>> \/ Cardinality(visited) >= MaxVisited
    THEN [stop |-> TRUE, q |-> q, e |-> [u |-> <<>>, depth |-> 0]]
    ELSE IF Head(q).u \in visited THEN PopNext(Tail(q), visited)
    ELSE [stop |-> FALSE, q |-> Tail(q), e |-> Head(q)]

\* parsers._parse_universal, lines 382-386 and 410
CrawlNext ==
    /\ pc = "crawl"
    /\ \E n \in {PopNext(crawl.q, crawl.visited)} :
         IF n.stop
         THEN SiteParsed(_dedup(crawl.all_deps), site)
         ELSE /\ pc' = "fetch"
              /\ crawl' = [crawl EXCEPT !.q = n.q, !.u = n.e.u,
                                        !.depth = n.e.depth,
                                        !.visited = @ \cup {n.e.u},
                                        !.attempt = 0]
              /\ UNCHANGED <<urls, i, sites, deposits_all, site, audit>>

\* parsers._parse_universal, lines 403-408: the end of one page, after its
\* last request
FinishPage(deps, links) ==
    \E fresh \in {SelectSeq(links, LAMBDA l : l \notin crawl.visited)} :
      /\ pc' = "crawl"
      /\ crawl' = [crawl EXCEPT
                     !.all_deps = @ \o deps,
                     !.q = @ \o [j \in 1..Len(fresh) |->
                                   [u |-> fresh[j], depth |-> crawl.depth + 1]],
                     !.u = <<>>, !.depth = 0, !.attempt = 0, !.deps = <<>>,
                     !.links = <<>>, !.bank = <<>>, !.jq = <<>>]
      /\ site' = Requested
      /\ UNCHANGED <<urls, i, sites, deposits_all, audit>>

\* a retry of the page that never gives up
PageFetchRetriesForever ==
    /\ pc = "fetch"
    /\ crawl' = [crawl EXCEPT !.attempt = @ + 1]
    /\ site' = Requested
    /\ UNCHANGED <<urls, i, pc, sites, deposits_all, audit>>

\* http.fetch raises for a page of the crawl: tenacity tries again, and
\* raises RetryError after the last attempt
PageFetchFails ==
    /\ pc = "fetch"
    /\ IF crawl.attempt + 1 < MaxAttempts
       THEN /\ crawl' = [crawl EXCEPT !.attempt = @ + 1]
            /\ site' = Requested
            /\ UNCHANGED <<urls, i, pc, sites, deposits_all, audit>>
       ELSE SiteError(e_connection, "fetch", crawl.attempt + 1)

\* parsers._parse_universal, lines 388-408: http.fetch returns the page
PageFetched ==
    /\ pc = "fetch"
    /\ \E p \in Web(crawl.u) :
         IF p.raises
         THEN SiteError(e_markup, "document", 0)
         ELSE
           \E soup \in {_clean_soup(p.dom)} :
           \E bank \in {_best_bank_name(soup)} :
           \E forced_usd \in {_page_forced_usd(crawl.u, NodeText(soup))} :
           \E deps \in {_extract_from_tables(soup, crawl.u, bank, forced_usd)
                          \o _extract_from_blocks(soup, crawl.u, bank, forced_usd)} :
           \E links \in {IF crawl.depth < 1
                          THEN _collect_links(crawl.u, soup, LinkLimit) ELSE <<>>} :
             IF deps # <<>>
             THEN FinishPage(deps, links)
             ELSE \E jl \in _discover_json_urls(crawl.u, p) :
                    IF jl = <<>>
                    THEN FinishPage(<<>>, links)
                    ELSE /\ pc' = "json"
                         /\ crawl' = [crawl EXCEPT !.links = links,
                                                   !.bank = bank, !.jq = jl,
                                                   !.attempt = 0]
                         /\ site' = Requested
                         /\ UNCHANGED <<urls, i, sites, deposits_all, audit>>

\* parsers._extract_from_json_endpoints, lines 329-339: on to the next
\* endpoint, or back to the page when there is none
NextEndpoint(deps) ==
    IF Len(crawl.jq) > 1
    THEN /\ crawl' = [crawl EXCEPT !.jq = Tail(@), !.deps = deps, !.attempt = 0]
         /\ site' = Requested
         /\ UNCHANGED <<urls, i, pc, sites, deposits_all, audit>>
    ELSE FinishPage(deps, crawl.links)

\* http.fetch raises for an endpoint; after the last attempt the RetryError
\* is caught by "except Exception: continue"
JsonFetchFails ==
    /\ pc = "json"
    /\ IF crawl.attempt + 1 < MaxAttempts
       THEN /\ crawl' = [crawl EXCEPT !.attempt = @ + 1]
            /\ site' = Requested
            /\ UNCHANGED <<urls, i, pc, sites, deposits_all, audit>>
       ELSE NextEndpoint(crawl.deps)

\* http.fetch returns for an endpoint: what is not JSON is skipped, what
\* r.json() raises on is caught, the rest is walked
JsonFetched ==
    /\ pc = "json"
    /\ \E a \in JsonWeb(Head(crawl.jq)) :
         IF a.kind = "json"
         THEN NextEndpoint(crawl.deps \o _walk_json(a.data, Head(crawl.jq), crawl.bank))
         ELSE NextEndpoint(crawl.deps)

\* parsers._parse_xb_open_data, line 352: http.fetch raises
XbFetchFails ==
    /\ pc = "xb"
    /\ IF crawl.attempt + 1 < MaxAttempts
       THEN /\ crawl' = [crawl EXCEPT !.attempt = @ + 1]
            /\ site' = Requested
            /\ UNCHANGED <<urls, i, pc, sites, deposits_all, audit>>
       ELSE SiteError(e_connection, "fetch", crawl.attempt + 1)

\* parsers._parse_xb_open_data, lines 352-374: http.fetch returns; .json()
\* raises on what is not JSON
XbFetched ==
    /\ pc = "xb"
    /\ \E a \in JsonWeb(XB_API_URL) :
         IF a.kind = "json"
         THEN SiteParsed(_parse_xb_open_data(a.data, urls[i]), Requested)
         ELSE SiteError(e_json, "xb_json", 0)

\* cli.main, line 123 on: the loop is over and the two lists go to the
\* report
Finish ==
    /\ pc = "loop"
    /\ i > Len(urls)
    /\ pc' = "done"
    /\ UNCHANGED <<urls, i, sites, deposits_all, site, crawl, audit>>

Next ==
    \/ StartSite
    \/ ProbeFails
    \/ ProbeAnswers
    \/ CrawlNext
    \/ PageFetchFails
    \/ PageFetched
    \/ JsonFetchFails
    \/ JsonFetched
    \/ XbFetchFails
    \/ XbFetched
    \/ Finish

Spec == Init /\ [][Next]_vars

-----------------------------------------------------------------------------
(* The properties checked of the run.                                      *)

\* the run is over: main returned, or an exception left it
RunOver == pc \in {"done", "aborted"}

\* deposits_all as the site sites[j] left it
DepositsAfter(j) == IF j < Len(audit) THEN audit[j + 1].before ELSE deposits_all

\* C1: for every list of input URLs and every behaviour of the network and
\* of URL parsing, the run ends with exactly one SiteStatus per input URL,
\* in input order; a failure of domain_of(url) on a malformed URL included.
\* The code calls domain_of before its try (cli.py:63), so this is violated.
C1_OneStatusPerUrl ==
    RunOver =>
        /\ Len(sites) = Len(urls)
        /\ \A j \in 1..Len(urls) : sites[j].input_url = urls[j]

\* C1, the part the code keeps: once urlparse accepts every input URL, the
\* run returns with one SiteStatus per URL, in input order
C1_OneStatusPerParsedUrl ==
    (RunOver /\ \A j \in 1..Len(urls) : ~UrlparseRaises(urls[j])) =>
        /\ pc = "done"
        /\ Len(sites) = Len(urls)
        /\ \A j \in 1..Len(urls) : sites[j].input_url = urls[j]

\* the run that C1 is violated by: the second URL is malformed, and the
\* exception leaves main with one SiteStatus written
C1_AbortedRun == pc = "aborted" /\ Len(urls) = 2 /\ Len(sites) = 1

\* C2: every Deposit that parse_url returns, by any strategy, has
\* 0 < rate <= 0.35 and currency "USD".  The xb.uz strategy accepts
\* 0.0 <= rate (parsers.py:366), so this is violated.
C2_RateAndCurrency ==
    \A j \in 1..Len(deposits_all) :
        /\ DecLT(Dec(0, 0), deposits_all[j].rate)
        /\ DecLE(deposits_all[j].rate, Dec(35, 2))
        /\ deposits_all[j].currency = "USD"

\* C2, the part the code keeps: the records of the table, block and JSON
\* walk strategies (every site but xb.uz) have 0 < rate <= 0.35, those of
\* xb.uz have 0 <= rate <= 0.35, and all have currency "USD"
C2_RateAndCurrencyByStrategy ==
    \A j \in 1..Len(deposits_all) :
        /\ DecLE(Dec(0, 0), deposits_all[j].rate)
        /\ deposits_all[j].site # s_xb_uz => DecLT(Dec(0, 0), deposits_all[j].rate)
        /\ DecLE(deposits_all[j].rate, Dec(35, 2))
        /\ deposits_all[j].currency = "USD"

\* a record with rate 0 in the output
C2_ZeroRateRecord == \E j \in 1..Len(deposits_all) : deposits_all[j].rate = Dec(0, 0)

s_example_bank == <<"E", "x", "a", "m", "p", "l", "e", " ", "B", "a", "n", "k">>

s_bank_example == <<"b", "a", "n", "k", ".", "e", "x", "a", "m", "p", "l", "e">>

s_premium_savings == <<"P", "r", "e", "m", "i", "u", "m", " ", "S", "a", "v", "i", "n", "g", "s">>

\* C3: the page https://bank.example/deposits (p_bank: <h1>Example Bank</h1>
\* and the table Currency/Deposit/Rate with the rows USD, Premium Savings,
\* 7.2% and UZS, Standard, 20%), once fetched and parsed, gives exactly one
\* record and the outcome OK with rows_found 1.  NOISE_RE finds "rem" in
\* "Premium", the row is dropped by _is_noise, so this is violated.
C3_BankExampleRecord ==
    (/\ pc = "done"
     /\ urls = <<u_bank>>
     /\ sites[1].result \notin {"BLOCKED", "ERROR"}) =>
        /\ deposits_all = <<Deposit(s_example_bank, s_bank_example,
                                    s_premium_savings, Dec(72, 3), u_bank)>>
        /\ sites[1].result = "OK"
        /\ sites[1].rows_found = 1

\* what the code does with that page: no record, rows_found 0
C3_BankExampleEmpty ==
    /\ pc = "done"
    /\ urls = <<u_bank>>
    /\ sites[1].result = "JS_RENDER_REQUIRED"
    /\ sites[1].rows_found = 0
    /\ deposits_all = <<>>

\* the hard-block condition, read off a SiteStatus: the status of the first
\* answer, and the names in its signal string
SignalNames(st) == {x \in {s_cloudflare, s_sucuri, s_antibot_cookie, s_antibot_page} :
                      Contains(st.signals, x)}

HardBlocked(st) ==
    /\ st.http_status # <<>>
    /\ \/ st.http_status[1] \in {401, 403, 429, 503}
       \/ /\ SignalNames(st) \cap {s_cloudflare, s_sucuri} # {}
          /\ SignalNames(st) \cap {s_antibot_cookie, s_antibot_page} # {}

\* C4: whenever the first answer of an input URL is a hard block, the
\* outcome is BLOCKED with rows_found 0, that answer is the only request of
\* the site (no crawl, no retry), and deposits_all is as it was before the
\* site.
C4_HardBlockEndsSite ==
    \A j \in 1..Len(sites) :
        HardBlocked(sites[j]) =>
            /\ sites[j].result = "BLOCKED"
            /\ sites[j].rows_found = 0
            /\ audit[j].requests = 1
            /\ audit[j].candidates = 0
            /\ DepositsAfter(j) = audit[j].before

\* a 200 answer behind Cloudflare with its bot cookie was BLOCKED, after a
\* site that gave records, and the run went on to its end
C4_BlockedBehindWaf ==
    /\ pc = "done"
    /\ Len(sites) = 2
    /\ sites[1].result = "OK"
    /\ sites[2].result = "BLOCKED"
    /\ sites[2].http_status = <<200>>
    /\ deposits_all # <<>>

\* the result the priority order of C5 picks
PriorityResult(hardBlock, recordCount, jsEmpty, hasUsd, hasPercent) ==
    IF hardBlock THEN "BLOCKED"
    ELSE IF recordCount >= 1 THEN "OK"
    ELSE IF jsEmpty THEN "JS_RENDER_REQUIRED"
    ELSE IF ~hasUsd THEN "NO_USD_MATCH"
    ELSE IF ~hasPercent THEN "NO_RATES_FOUND"
    ELSE "NO_MATCHING_DEPOSITS"

ResultKinds ==
    {"BLOCKED", "OK", "JS_RENDER_REQUIRED", "NO_USD_MATCH", "NO_RATES_FOUND",
     "NO_MATCHING_DEPOSITS", "ERROR"}

\* C5: a site handled without an exception gets the result the priority
\* order picks from (hard block, number of records, root looks JS-empty,
\* root has a USD token, root has '%'); every result is one of the seven
\* kinds, and it is OK exactly when rows_found > 0.
C5_ResultByPriority ==
    \A j \in 1..Len(sites) :
        /\ audit[j].cause = "none" =>
             sites[j].result =
                 PriorityResult(HardBlocked(sites[j]),
                                Len(DepositsAfter(j)) - Len(audit[j].before),
                                audit[j].js_empty, audit[j].has_usd, audit[j].has_pct)
        /\ audit[j].cause # "none" => sites[j].result = "ERROR"
        /\ sites[j].result \in ResultKinds
        /\ sites[j].result = "OK" <=> sites[j].rows_found > 0

\* a root page that looks JS-empty and holds no USD token was classified
\* JS_RENDER_REQUIRED, and one with USD tokens and no '%' NO_RATES_FOUND
C5_PriorityDecides ==
    /\ Len(sites) = 2
    /\ sites[1].result = "JS_RENDER_REQUIRED"
    /\ audit[1].js_empty /\ ~audit[1].has_usd
    /\ sites[2].result = "NO_RATES_FOUND"
    /\ ~audit[2].js_empty /\ audit[2].has_usd /\ ~audit[2].has_pct

\* C8: every fetch of a site, the first fetch of the input URL included, is
\* tried up to 3 times: a site is ERROR because of a fetch only after 3
\* failed attempts of that fetch.  The first fetch is a bare session.get
\* (cli.py:72), tried once, so this is violated.
C8_ErrorAfterThreeAttempts ==
    \A j \in 1..Len(sites) :
        audit[j].cause \in {"probe", "fetch"} => audit[j].attempts = MaxAttempts

\* C8, the part the code keeps: the fetches made through http.fetch end the
\* site only at their third failure, and no fetch is tried a fourth time
C8_FetchRetried ==
    /\ \A j \in 1..Len(sites) :
         /\ audit[j].cause = "fetch" => audit[j].attempts = MaxAttempts
         /\ audit[j].attempts <= MaxAttempts
    /\ crawl.attempt < MaxAttempts

\* a site that is ERROR after one failed request
C8_ErrorAfterOneAttempt ==
    \E j \in 1..Len(sites) :
        /\ sites[j].result = "ERROR"
        /\ audit[j].cause = "probe"
        /\ audit[j].requests = 1

RECURSIVE SumRows(_)
SumRows(ss) == IF ss = <<>> THEN 0 ELSE Head(ss).rows_found + SumRows(Tail(ss))

\* C9: whenever a step of a site's processing raises (the probe, a fetch
\* out of attempts, a parse failure), the outcome is ERROR with rows_found 0
\* and deposits_all is as it was before the site, whatever the crawl had
\* collected; so the number of records equals the sum of rows_found.
C9_ErrorAddsNothing ==
    /\ \A j \in 1..Len(sites) :
         (audit[j].cause # "none" \/ sites[j].result = "ERROR") =>
             /\ sites[j].result = "ERROR"
             /\ audit[j].cause # "none"
             /\ sites[j].rows_found = 0
             /\ DepositsAfter(j) = audit[j].before
    /\ Len(deposits_all) = SumRows(sites)

\* after a site that gave records, a site whose crawl had collected records
\* ended ERROR on a later page
C9_ErrorAfterRecords ==
    /\ Len(sites) = 2
    /\ sites[1].result = "OK"
    /\ sites[2].result = "ERROR"
    /\ audit[2].candidates > 0
    /\ audit[2].cause = "fetch"

\* C10: during a crawl, a page whose document cannot be processed is caught
\* at that page: it gives no candidates, the crawl goes on, and the records
\* of the other pages are returned.  _parse_universal catches nothing
\* (parsers.py:388-408), so the site ends ERROR: this is violated.
C10_PageFailureCaught ==
    \A j \in 1..Len(sites) :
        audit[j].cause # "document"
        /\ (audit[j].candidates > 0 /\ audit[j].cause \notin {"fetch"} =>
              sites[j].rows_found > 0)

\* C10, the part the code keeps: an endpoint that fails or answers with
\* what is not JSON never ends the site
C10_EndpointFailureCaught ==
    [][pc = "json" => pc' \in {"json", "crawl"}]_vars

\* a site whose crawl had collected records ended ERROR on a document
C10_RecordsLostToOnePage ==
    \E j \in 1..Len(sites) :
        /\ sites[j].result = "ERROR"
        /\ audit[j].cause = "document"
        /\ audit[j].candidates > 0

-----------------------------------------------------------------------------
(* The diagnosis of one response on its own (http.diagnose_response and    *)
(* cli._is_hard_block): every status, set of headers and body below is     *)
(* diagnosed once.  site holds the response, audit the list of signals     *)
(* and the decision.                                                       *)

DiagnosedStatuses == {200, 401, 403, 404, 429, 500, 503}

\* the headers a response can carry, in the order they are sent
DiagnosedHeaders ==
    << Header(<<"C", "F", "-", "R", "A", "Y">>, <<"8", "f", "1">>),
       Header(<<"S", "e", "r", "v", "e", "r">>, <<"C", "l", "o", "u", "d", "f", "l", "a", "r", "e">>),
       Header(<<"X", "-", "S", "u", "c", "u", "r", "i", "-", "I", "D">>, <<"1", "4">>),
       Header(<<"S", "e", "t", "-", "C", "o", "o", "k", "i", "e">>, <<"_", "_", "c", "f", "_", "b", "m", "=", "1">>),
       Header(<<"S", "e", "t", "-", "C", "o", "o", "k", "i", "e">>, <<"s", "i", "d", "=", "1">>) >>

\* bodies: a long plain page, a long challenge page, and a thin page
DiagnosedBodies ==
    { [text |-> <<"<", "p", ">", "D", "e", "p", "o", "s", "i", "t", "s", " ", "5", "%", "<", "/", "p", ">">>, pad |-> 3000],
      [text |-> <<"<", "p", ">", "J", "u", "s", "t", " ", "a", " ", "m", "o", "m", "e", "n", "t", ".", ".", ".", "<", "/", "p", ">">>, pad |-> 3000],
      [text |-> <<"<", "p", ">", "o", "k", "<", "/", "p", ">">>, pad |-> 0] }

InitBlock ==
    /\ urls = <<>>
    /\ i = 1
    /\ pc = "diagnose"
    /\ sites = <<>>
    /\ deposits_all = <<>>
    /\ site = IdleSite
    /\ crawl = IdleCrawl
    /\ audit = <<>>

\* cli.main, lines 72-77, for one answer
DiagnoseAnswer ==
    /\ pc = "diagnose"
    /\ \E status \in DiagnosedStatuses, hs \in SUBSET (1..Len(DiagnosedHeaders)),
          b \in DiagnosedBodies :
       \E r \in {[status_code |-> status,
                  headers |-> SelectSeq(DiagnosedHeaders,
                                 LAMBDA h : \E a \in hs : DiagnosedHeaders[a] = h),
                  text |-> b.text, pad |-> b.pad]} :
       \E signals \in {diagnose_response(r)} :
         /\ site' = [IdleSite EXCEPT !.http_status = <<status>>, !.signals = signals,
                                     !.text = r.text, !.pad = r.pad, !.requests = 1]
         /\ audit' = <<[headers |-> r.headers,
                        parts |-> SignalParts(r),
                        hard |-> _is_hard_block(<<status>>, signals)]>>
         /\ pc' = "diagnosed"
         /\ UNCHANGED <<urls, i, sites, deposits_all, crawl>>

\* on to the next answer
NextAnswer ==
    /\ pc = "diagnosed"
    /\ pc' = "diagnose"
    /\ site' = IdleSite
    /\ audit' = <<>>
    /\ UNCHANGED <<urls, i, sites, deposits_all, crawl>>

NextBlock == DiagnoseAnswer \/ NextAnswer

SpecBlock == InitBlock /\ [][NextBlock]_vars

\* the signals the diagnosis of the current answer listed
DiagnosedSignals == {audit[1].parts[a] : a \in 1..Len(audit[1].parts)}

\* C6: for every status and every signal string of diagnose_response,
\* _is_hard_block is true exactly when the status is 401, 403, 429 or 503,
\* or the signals hold cloudflare or sucuri and also antibot_cookie or
\* antibot_page; so 403 alone is a hard block, cloudflare alone on a 200 is
\* not, and cloudflare with antibot_cookie is.
C6_HardBlockDecision ==
    pc = "diagnosed" =>
        /\ audit[1].hard <=>
             \/ site.http_status[1] \in {401, 403, 429, 503}
             \/ /\ DiagnosedSignals \cap {s_cloudflare, s_sucuri} # {}
                /\ DiagnosedSignals \cap {s_antibot_cookie, s_antibot_page} # {}
        /\ site.http_status = <<403>> => audit[1].hard
        /\ (site.http_status = <<200>>
              /\ DiagnosedSignals \subseteq {s_cloudflare, s_thin}) => ~audit[1].hard
        /\ {s_cloudflare, s_antibot_cookie} \subseteq DiagnosedSignals => audit[1].hard

\* a 200 answer whose only signals are cloudflare and antibot_cookie was
\* decided a hard block
C6_WafWithCookieOn200 ==
    /\ pc = "diagnosed"
    /\ site.http_status = <<200>>
    /\ DiagnosedSignals = {s_cloudflare, s_antibot_cookie}
    /\ audit[1].hard

-----------------------------------------------------------------------------
(* parsers._dedup on its own: every list of at most MaxDedupLen of the     *)
(* records below is deduplicated, the result is deduplicated again, and a  *)
(* reordering of the list is deduplicated too.                             *)

\* the longest list of candidate records explored
MaxDedupLen == 3

s_a_uz == <<"a", ".", "u", "z">>

\* names that collide once trimmed and lower-cased, and one that does not
DedupNames == {<<"G", "o", "l", "d">>, <<" ", "g", "o", "l", "d", " ">>, <<"S", "i", "l", "v", "e", "r">>}

DedupRecords ==
    { Deposit(s_unknown_bank, s_a_uz, n, r, u_alfa) :
        n \in DedupNames, r \in {Dec(4, 2), Dec(5, 2)} }

\* the reorderings of the list xs
Reorderings(xs) ==
    { [k \in 1..Len(xs) |-> xs[f[k]]] :
        f \in { g \in [1..Len(xs) -> 1..Len(xs)] :
                  \A a, b \in 1..Len(xs) : g[a] = g[b] => a = b } }

InitDedup ==
    /\ urls = <<>>
    /\ i = 1
    /\ pc = "dedup"
    /\ sites = <<>>
    /\ deposits_all \in UNION { [1..n -> DedupRecords] : n \in 0..MaxDedupLen }
    /\ site = IdleSite
    /\ crawl = IdleCrawl
    /\ audit = <<>>

\* parsers._parse_universal, line 410: return _dedup(all_deps)
DedupOnce ==
    /\ pc = "dedup"
    /\ crawl' = [IdleCrawl EXCEPT !.all_deps = deposits_all,
                                  !.deps = _dedup(deposits_all)]
    /\ pc' = "deduped"
    /\ UNCHANGED <<urls, i, sites, deposits_all, site, audit>>

\* _dedup applied to its own result, and to a reordering of the list
DedupAgain ==
    /\ pc = "deduped"
    /\ \E ys \in Reorderings(crawl.all_deps) :
         audit' = <<[twice |-> _dedup(crawl.deps), ys |-> ys, of_ys |-> _dedup(ys)]>>
    /\ pc' = "compared"
    /\ UNCHANGED <<urls, i, sites, deposits_all, site, crawl>>

NextDedup == DedupOnce \/ DedupAgain

SpecDedup == InitDedup /\ [][NextDedup]_vars

\* the key of C7: (site, trimmed lower-cased name, rate)
C7Key(d) == <<d.site, Lower(Strip(d.name)), d.rate>>

C7Keys(ds) == {C7Key(ds[a]) : a \in 1..Len(ds)}

C7Records(ds) == {ds[a] : a \in 1..Len(ds)}

\* C7 as stated: _dedup of any reordering ys of xs yields the same set of
\* records as _dedup(xs).  _dedup keeps the first record seen of a key, and
\* which one is first depends on the order, so this is violated.
C7_SameRecordsInAnyOrder ==
    pc = "compared" => C7Records(audit[1].of_ys) = C7Records(crawl.deps)

\* C7, amended: _dedup(_dedup(xs)) = _dedup(xs); for every reordering ys of
\* xs, _dedup(ys) has the same set of keys as _dedup(xs); and _dedup(xs)
\* holds, for each key of xs, exactly one record, the first of xs with that
\* key, and nothing else.
C7_IdempotentFirstSeenPerKey ==
    pc = "compared" =>
        /\ audit[1].twice = crawl.deps
        /\ C7Keys(audit[1].of_ys) = C7Keys(crawl.deps)
        /\ C7Keys(crawl.deps) = C7Keys(crawl.all_deps)
        /\ \A a, b \in 1..Len(crawl.deps) :
             C7Key(crawl.deps[a]) = C7Key(crawl.deps[b]) => a = b
        /\ \A a \in 1..Len(crawl.deps) :
             \E b \in 1..Len(crawl.all_deps) :
                /\ crawl.all_deps[b] = crawl.deps[a]
                /\ \A c \in 1..(b - 1) :
                     C7Key(crawl.all_deps[c]) # C7Key(crawl.deps[a])

\* a list with two different records of one key: _dedup dropped one, and
\* the reordering kept the other
C7_OrderDecidesRecord ==
    /\ pc = "compared"
    /\ Len(crawl.deps) < Len(crawl.all_deps)
    /\ C7Records(audit[1].of_ys) # C7Records(crawl.deps)
    /\ C7Keys(audit[1].of_ys) = C7Keys(crawl.deps)

-----------------------------------------------------------------------------
(* The collection handed to the report (cli.main, line 123): deposits_all  *)
(* is the concatenation of what parse_url returned for each input URL.     *)

\* the records site number j added to deposits_all
AddedBy(j) ==
    SubSeq(DepositsAfter(j), Len(audit[j].before) + 1, Len(DepositsAfter(j)))

\* C11: in the collection handed to the export layer at the end of a run no
\* two records share the key (site, trimmed lower-cased name, rate), for
\* every input list, lists with two URLs of one domain included.
\* deposits_all.extend(deps) (cli.py:85) deduplicates nothing across input
\* URLs, so this is violated by a list that names one site twice.
C11_NoSharedKey ==
    pc = "done" =>
        \A a, b \in 1..Len(deposits_all) :
            C7Key(deposits_all[a]) = C7Key(deposits_all[b]) => a = b

\* what holds instead: the records one input URL added share no key
C11_NoSharedKeyPerUrl ==
    \A j \in 1..Len(sites) :
        \A a, b \in 1..Len(AddedBy(j)) :
            C7Key(AddedBy(j)[a]) = C7Key(AddedBy(j)[b]) => a = b

\* a finished run over two URLs of one domain, both OK, whose collection
\* holds one record twice
C11_SameDomainTwice ==
    /\ pc = "done"
    /\ Len(urls) = 2
    /\ domain_of(urls[1]) = domain_of(urls[2])
    /\ sites[1].result = "OK" /\ sites[2].result = "OK"
    /\ \E a, b \in 1..Len(deposits_all) :
         a < b /\ deposits_all[a] = deposits_all[b]

-----------------------------------------------------------------------------
(* parsers._parse_universal on its own: the run over one input URL that    *)
(* parse_url routes to the crawl, https://alfa.uz/ (pages that link to     *)
(* themselves and to each other, an endpoint) or https://hub.uz/ (a root   *)
(* with more links than the caps let through, pages that link back).       *)

CrawlUrls == {u_alfa, u_hub}

InitCrawl ==
    /\ urls \in {<<u>> : u \in CrawlUrls}
    /\ i = 1
    /\ pc = "loop"
    /\ sites = <<>>
    /\ deposits_all = <<>>
    /\ site = IdleSite
    /\ crawl = IdleCrawl
    /\ audit = <<>>

NextCrawl ==
    \/ StartSite
    \/ ProbeFails
    \/ ProbeAnswers
    \/ CrawlNext
    \/ PageFetchFails
    \/ PageFetched
    \/ JsonFetchFails
    \/ JsonFetched
    \/ Finish

SpecCrawl == InitCrawl /\ [][NextCrawl]_vars

\* the crawl of the current site is under way
InCrawl == pc \in {"crawl", "fetch", "json"}

\* a page is being processed (lines 388-408)
OnPage == pc \in {"fetch", "json"}

\* the links _collect_links can have harvested from the page at u
HarvestsOf(u) == {_collect_links(u, _clean_soup(p.dom), LinkLimit) : p \in {x \in Web(u) : ~x.raises}}

\* what holds of the queue and the visited set in every state of a crawl
CrawlBounds ==
    InCrawl =>
        /\ \A a \in 1..Len(crawl.q) : crawl.q[a].depth \in {0, 1}
        /\ OnPage => crawl.depth \in {0, 1} /\ crawl.u \in crawl.visited
        /\ Cardinality(crawl.visited) <= MaxVisited
        /\ Len(crawl.q) <= LinkLimit
        /\ Cardinality(crawl.visited) + Len(crawl.q) <= 1 + LinkLimit

\* what holds of every step of a crawl
CrawlStep ==
    (InCrawl /\ InCrawl') =>
        \* a page is fetched only when it has not been visited, and is then
        \* visited; nothing else changes the visited set or the current page
        /\ IF pc = "crawl" /\ pc' = "fetch"
           THEN /\ crawl'.u \notin crawl.visited
                /\ crawl'.visited = crawl.visited \cup {crawl'.u}
           ELSE crawl'.visited = crawl.visited
        /\ (OnPage /\ OnPage') => crawl'.u = crawl.u
        \* the queue grows only at the end of the depth-0 page, by links that
        \* page yielded, each at depth 1 and at most LinkLimit of them
        /\ IF Len(crawl'.q) > Len(crawl.q)
           THEN /\ OnPage /\ pc' = "crawl"
                /\ crawl.depth = 0
                /\ crawl.q = <<>>
                /\ crawl.visited = {crawl.u}
                /\ \E links \in HarvestsOf(crawl.u) :
                     /\ Len(links) <= LinkLimit
                     /\ Len(crawl'.q) <= Len(links)
                     /\ \A a \in 1..Len(crawl'.q) :
                          /\ crawl'.q[a].depth = 1
                          /\ \E b \in 1..Len(links) : links[b] = crawl'.q[a].u
           ELSE \* pages visited and pages waiting never grow together again
                Cardinality(crawl'.visited) + Len(crawl'.q)
                    <= Cardinality(crawl.visited) + Len(crawl.q)

\* C12: in every reachable state of _parse_universal every queue entry has
\* depth 0 or 1; no URL is fetched and extracted twice in one crawl; links
\* are enqueued only from the depth-0 page, so the pages processed are at
\* most 1 + the number of links harvested from the root, itself at most
\* 200; and the number of pages processed never exceeds 20.
C12_CrawlBounded == []CrawlBounds /\ [][CrawlStep]_vars

\* the root yielded LinkLimit links or more, and the loop has stopped at
\* MaxVisited pages with the rest of them waiting
C12_BothCapsReached ==
    /\ pc = "crawl"
    /\ Cardinality(crawl.visited) = MaxVisited
    /\ Len(crawl.q) = LinkLimit - (MaxVisited - 1)
    /\ \A a \in 1..Len(crawl.q) : crawl.q[a].depth = 1

-----------------------------------------------------------------------------
(* Termination.  The program is sequential: while main has not returned    *)
(* and no exception has left it, its next step is taken, and every request *)
(* returns or fails.  That is weak fairness of Next.                       *)

SpecFair == Spec /\ WF_vars(Next)

\* the step that leaves the crawl of a site ends the iteration of the for
\* loop: the site is recorded and the loop is at the next URL
CrawlLeft ==
    /\ pc' = "loop"
    /\ i' = i + 1
    /\ Len(sites') = Len(sites) + 1

\* _parse_universal returned: the site is not ERROR and deposits_all has
\* grown by the deduplicated records
CrawlReturned ==
    /\ audit'[Len(audit')].cause = "none"
    /\ sites'[Len(sites')].result # "ERROR"
    /\ deposits_all' = deposits_all \o _dedup(crawl.all_deps)

\* a fetch raised at its third attempt
CrawlRetryError ==
    /\ audit'[Len(audit')].cause = "fetch"
    /\ audit'[Len(audit')].attempts = 3
    /\ crawl.attempt = 2
    /\ sites'[Len(sites')].result = "ERROR"

\* parsing or extracting a fetched document raised
CrawlDocumentError ==
    /\ audit'[Len(audit')].cause = "document"
    /\ sites'[Len(sites')].result = "ERROR"

\* every crawl that is under way is left; CrawlLeft says where to
CrawlEnds == InCrawl ~> ~InCrawl

-----------------------------------------------------------------------------
(* The rate of a text.  _extract_rate_from_text is applied to texts made   *)
(* of percent values in and out of (0, 0.35], bare numbers in and out of   *)
(* it, a word, and a run of five bare numbers.                             *)

\* the longest text explored, in parts
MaxRateParts == 3

RateParts ==
    { <<"5", "0", "%">>,
      <<"1", "2">>,
      <<"7", "%">>,
      <<"0", ",", "5">>,
      <<"0", ".", "2">>,
      <<"4", "0">>,
      <<"0", "%">>,
      <<"a", "b", "c">>,
      <<"4", "0", " ", "5", "0", " ", "6", "0", " ", "7", "0", " ", "1", "2">> }

RateTexts ==
    { JoinSpace(ps) : ps \in UNION { [1..n -> RateParts] : n \in 1..MaxRateParts } }

InitRate ==
    /\ urls = <<>>
    /\ i = 1
    /\ pc = "rate"
    /\ sites = <<>>
    /\ deposits_all = <<>>
    /\ site \in { [IdleSite EXCEPT !.text = t] : t \in RateTexts }
    /\ crawl = IdleCrawl
    /\ audit = <<>>

\* parsers._extract_rate_from_text applied to the text
ExtractRate ==
    /\ pc = "rate"
    /\ audit' = <<[rate |-> _extract_rate_from_text(site.text)]>>
    /\ pc' = "rated"
    /\ UNCHANGED <<urls, i, sites, deposits_all, site, crawl>>

NextRate == ExtractRate

SpecRate == InitRate /\ [][NextRate]_vars

\* the fraction of the first <number>% of the text
FirstPercentFraction ==
    Div100(ParseFloat(CommaToDot(PctSearch(site.text)[1]))[1])

\* the value of a bare number: divided by 100 when it is over 1.0
BareValue(raw) ==
    With(ParseFloat(CommaToDot(raw))[1], LAMBDA v :
      IF DecLT(DecOne, v) THEN Div100(v) ELSE v)

\* the first of the numbers nums whose bare value is in (0, 0.35]
FirstBareRate(nums) ==
    With({a \in 1..Len(nums) : RateAccepted(BareValue(nums[a]))}, LAMBDA ok :
      IF ok = {} THEN <<>>
      ELSE <<BareValue(nums[CHOOSE a \in ok : \A b \in ok : a <= b])>>)

\* C14: when the text contains a <number>% pattern, _extract_rate_from_text
\* returns the fraction of the first one if it lies in (0, 0.35] and no
\* rate otherwise; the bare numbers (the first 4, a value over 1.0 divided
\* by 100) are scanned only when the text has no percent pattern.  So "50%"
\* followed by a bare 12 yields no rate.  The code goes on to the bare
\* numbers after a percent value out of range, so this is violated.
C14_PercentTakesPrecedence ==
    pc = "rated" =>
        audit[1].rate =
            IF PctSearch(site.text) # <<>>
            THEN (IF RateAccepted(FirstPercentFraction)
                  THEN <<FirstPercentFraction>> ELSE <<>>)
            ELSE FirstBareRate(Prefix(NumFindAll(site.text, 1), 4))

\* what the code does: the first percent value when it is in range, and
\* otherwise the first four numbers of the text, the one of the percent
\* pattern included, as bare numbers
C14_PercentThenBareNumbers ==
    pc = "rated" =>
        audit[1].rate =
            IF PctSearch(site.text) # <<>> /\ RateAccepted(FirstPercentFraction)
            THEN <<FirstPercentFraction>>
            ELSE FirstBareRate(Prefix(NumFindAll(site.text, 1), 4))

\* "50% 12" was given the rate 0.12
C14_BareNumberAfterRejectedPercent ==
    /\ pc = "rated"
    /\ site.text = <<"5", "0", "%", " ", "1", "2">>
    /\ audit[1].rate = <<Dec(12, 2)>>

-----------------------------------------------------------------------------
(* The dispatch of parse_url, over hosts that are xb.uz, that end with     *)
(* xb.uz, that become xb.uz once leading "w" and "." are stripped, and     *)
(* others.                                                                 *)

RouteSchemes ==
    { <<"h", "t", "t", "p", ":", "/", "/">>,
      <<"h", "t", "t", "p", "s", ":", "/", "/">> }

RouteHosts ==
    { <<"x", "b", ".", "u", "z">>,
      <<"w", "w", "w", ".", "x", "b", ".", "u", "z">>,
      <<"X", "B", ".", "u", "z">>,
      <<"a", "b", "c", "x", "b", ".", "u", "z">>,
      <<"w", "x", "b", ".", "u", "z">>,
      <<"w", ".", "x", "b", ".", "u", "z">>,
      <<"x", "b", ".", "u", "z", ".", "c", "o", "m">>,
      <<"a", "l", "f", "a", ".", "u", "z">>,
      <<"w", "w", "w", ".", "a", "l", "f", "a", ".", "u", "z">> }

RoutePaths ==
    { <<>>,
      <<"/">>,
      <<"/", "d", "e", "p", "o", "s", "i", "t", "s">>,
      <<"/", "u", "z", "/", "o", "m", "o", "n", "a", "t", "?", "p", "a", "g", "e", "=", "2">> }

RouteUrls == { s \o h \o p : s \in RouteSchemes, h \in RouteHosts, p \in RoutePaths }

InitRoute ==
    /\ urls \in { <<u>> : u \in RouteUrls }
    /\ i = 1
    /\ pc = "route"
    /\ sites = <<>>
    /\ deposits_all = <<>>
    /\ site = IdleSite
    /\ crawl = IdleCrawl
    /\ audit = <<>>

\* parsers.parse_url called with the URL
RouteUrl ==
    /\ pc = "route"
    /\ EnterParseUrl(urls[1], site)

NextRoute == RouteUrl

SpecRoute == InitRoute /\ [][NextRoute]_vars

s_www_xb_uz == <<"w", "w", "w", ".", "x", "b", ".", "u", "z">>

\* the host of the routed URL, in lower case
RoutedHost == Lower(Netloc(urls[1]))

\* C15: parse_url routes to the structured strategy exactly when the host
\* is xb.uz, with or without a leading "www.", and routes every other host,
\* abcxb.uz and wxb.uz included, to the generic pipeline.  The code tests
\* domain_of(url).endswith("xb.uz"), and domain_of strips leading "w" and
\* "." characters, so this is violated.
C15_StructuredOnlyForXb ==
    pc # "route" =>
        /\ pc \in {"xb", "crawl"}
        /\ pc = "xb" <=> RoutedHost \in {s_xb_uz, s_www_xb_uz}

\* what the code does: the structured strategy exactly when the host, in
\* lower case and without its leading "w" and "." characters, ends with
\* xb.uz
C15_StructuredForXbSuffix ==
    pc # "route" =>
        /\ pc \in {"xb", "crawl"}
        /\ pc = "xb" <=>
             \E a \in 1..(Len(RoutedHost) + 1) :
               /\ \A b \in 1..(a - 1) : RoutedHost[b] \in {"w", "."}
               /\ a > Len(RoutedHost) \/ RoutedHost[a] \notin {"w", "."}
               /\ Len(RoutedHost) - a + 1 >= Len(s_xb_uz)
               /\ SubSeq(RoutedHost, Len(RoutedHost) - Len(s_xb_uz) + 1, Len(RoutedHost)) = s_xb_uz

\* the host abcxb.uz was routed to the structured strategy
C15_OtherHostStructured ==
    /\ pc = "xb"
    /\ RoutedHost = <<"a", "b", "c", "x", "b", ".", "u", "z">>

\* the host wxb.uz was routed to the structured strategy
C15_StrippedHostStructured ==
    /\ pc = "xb"
    /\ RoutedHost = <<"w", "x", "b", ".", "u", "z">>

=============================================================================
